---- MODULE Spec2Model ----
(***************************************************************************)
(* Model of the MeetingBurner transcription service.                       *)
(*                                                                         *)
(*   Spec      the Room Session Registry (room-manager.ts): startRoom,     *)
(*             stopRoom and the bots' 'disconnected' listener, every await *)
(*             being a point where another call may run.                   *)
(*                                                                         *)
(*   SpecBot   one Room Bot after a successful join (livekit-bot.ts):       *)
(*             participant joined/left handling, the audio loops, the      *)
(*             adapters (assemblyai-stream.ts) and leave().                *)
(*   SpecAudio one participant's audio pipeline (vad.ts, processAudioFrame) *)
(*             fed with every frame over Samples, its adapter closing and  *)
(*             reconnecting.                                               *)
(*                                                                         *)
(* Node runs one callback at a time: an action is the code that runs       *)
(* between two awaits.                                                     *)
(***************************************************************************)
EXTENDS Integers, Sequences, FiniteSets, TLC

(***************************************************************************)
(* Bounds.                                                                 *)
(***************************************************************************)
MaxStartCalls == 2
MaxStopCalls == 2
\* handleParticipantJoined / handleParticipantLeft invocations of the one bot
MaxJoins == 1
MaxLefts == 1
\* 'close' events of the external transcription session, per adapter
MaxCloses == 1
\* the chunk size of the AudioBuffer (4800 in the bot), in samples
chunkSize == 2
\* samples per audio frame, and chunks of audio fed to one handler
MaxFrameLen == 3
MaxChunks == 6
MaxEvents == 4
MaxSamples == 6
MaxAdapterCalls == 5

StartCalls == 1..MaxStartCalls
StopCalls == 1..MaxStopCalls
\* the rooms that exist, and those that startRoom and stopRoom are called for in Spec
RoomIds == {"r1", "r2"}
Rooms == {"r1"}

VARIABLES
  activeRooms,    \* RoomManager.activeRooms: room id -> bot/session of the entry, 0 = no entry
  joiningRooms,   \* RoomManager.joiningRooms
  stoppingRooms,  \* RoomManager.stoppingRooms
  start,          \* the startRoom invocations (locals and position)
  stop,           \* the stopRoom invocations (locals and position)
  bot,            \* the LiveKitBot constructed by startRoom invocation b
  completeCalls,  \* completeTranscriptionSession calls per session id
  room,           \* LiveKitBot.room of the one bot of SpecBot / SpecAudio
  participants,   \* LiveKitBot.participants: the entries of the Map, in insertion order
  handlers,       \* the ParticipantHandler objects, by the invocation that made them
  streams,        \* the AssemblyAIStream objects, by the invocation that made them
  totalSpeechDurationMs,  \* LiveKitBot.totalSpeechDurationMs
  joinedCalls,    \* the handleParticipantJoined invocations
  leftCalls,      \* the handleParticipantLeft invocations
  leaveCall,      \* the leave() invocation
  audio,          \* the handleAudioTrack loops, one per handler
  joinCall,       \* the join() invocation
  stopAllCall,    \* the stopAll() invocation
  audioBuffer,    \* the AudioBuffer of SpecBuffer
  pcm,            \* the last float32ToInt16 call: its argument and its result
  adapterCalls    \* the calls and events of the one adapter of SpecAdapter

rmVars == <<activeRooms, joiningRooms, stoppingRooms, start, stop, bot, completeCalls,
            stopAllCall>>
botVars == <<room, participants, handlers, streams, totalSpeechDurationMs,
             joinedCalls, leftCalls, leaveCall, audio, joinCall, audioBuffer,
             pcm, adapterCalls>>
vars == <<rmVars, botVars>>

(***************************************************************************)
(* The session id returned to startRoom invocation c and the bot it        *)
(* constructs are both named c.                                            *)
(***************************************************************************)
NoStart ==
  [pc |-> "idle", roomId |-> "none", settings |-> "none", created |-> 0,
   sessionId |-> 0, result |-> "none", seen |-> "none",
   overlaps |-> {}, mids |-> {}]

\* found: what activeRooms.get(roomId) gave the invocation;
\* left: the bot whose durations leave() returned to the invocation; completed: the
\* bot whose durations it gave to completeTranscriptionSession; removed: it has
\* called removeChannel
NoStop ==
  [pc |-> "idle", roomId |-> "none", bot |-> 0, via |-> 0, result |-> "none",
   overlaps |-> {}, left |-> 0, completed |-> 0, removed |-> FALSE,
   found |-> 0]

\* began: for each stopRoom that stopAll has called, the room, the invocation and the
\* stopRoom invocations on the room before it that were under way at that moment
NoStopAll ==
  [pc |-> "idle", roomIds |-> <<>>, index |-> 0, call |-> 0, began |-> <<>>]

NoBot ==
  [constructed |-> FALSE, room |-> "null", joinCalls |-> 0, leaveCalls |-> 0,
   dropped |-> FALSE, ignored |-> 0]

InitRegistry ==
  /\ activeRooms = [r \in RoomIds |-> 0]
  /\ joiningRooms = {}
  /\ stoppingRooms = {}
  /\ start = [c \in StartCalls |-> NoStart]
  /\ stop = [s \in StopCalls |-> NoStop]
  /\ bot = [b \in StartCalls |-> NoBot]
  /\ completeCalls = [b \in StartCalls |-> 0]
  /\ stopAllCall = NoStopAll

(***************************************************************************)
(* The state of one bot. The handler and the adapter made by               *)
(* handleParticipantJoined invocation j are both named j.                  *)
(***************************************************************************)
JoinCalls == 1..MaxJoins
LeftCalls == 1..MaxLefts
ParticipantIds == {"p1", "p2"}
BOT_IDENTITY == "transcription-bot"

\* samples are Int16 values; Loud is a quarter of full scale
Loud == 8192
Samples == {0, Loud}

\* new AudioStream(track, 16000, 1)
sampleRate == 16000

\* added: how often the speech duration of the handler went into the total
NoHandler ==
  [participantId |-> "none", stream |-> 0, speechDurationMs |-> 0,
   buffer |-> [i \in 1..chunkSize |-> 0], writeIndex |-> 0, audioStreamAbort |-> "undefined",
   added |-> 0]

\* connecting: where a connect() in flight is; closes, connectCalls, sent: the 'close'
\* events, the connect() calls that opened a session, the chunks given to the session
NoStream ==
  [isConnected |-> FALSE, transcriber |-> "null", connecting |-> "no",
   connectCalls |-> 0, closes |-> 0, sent |-> 0]

\* rejected: the promise of the invocation was rejected
NoJoined == [pc |-> "idle", participant |-> "none", result |-> "none", rejected |-> FALSE]
\* handler, stream: the handler in hand and the adapter whose close() is awaited;
\* had: whether that close() found a transcriber
\* joined: the handleParticipantJoined invocations for the participant made before
NoLeft == [pc |-> "idle", participant |-> "none", handler |-> 0, stream |-> 0, had |-> FALSE,
          joined |-> {}]
\* index: the entry of the Map the iterator of leave() stands at
\* existed: the handlers there were when leave() was called
NoLeave == [pc |-> "idle", index |-> 0, handler |-> 0, stream |-> 0, had |-> FALSE,
            result |-> "none", speechDurationMs |-> 0, existed |-> {}]

\* attempt: the loop variable of join(); present: the participants found in the room
\* and not yet enumerated; current: the handleParticipantJoined invocation awaited;
\* listeners: setupRoomEvents has run on this.room; connects, waits: the connect
\* attempts made and the delays waited, in milliseconds; enumerated: the
\* handleParticipantJoined invocations join() has made
NoJoin == [pc |-> "idle", attempt |-> 0, present |-> <<>>, current |-> 0,
           listeners |-> FALSE, connects |-> 0, waits |-> <<>>, result |-> "none",
           enumerated |-> {}]

\* join() has returned after its first connect attempt, nobody was in the room
Joined == [NoJoin EXCEPT !.pc = "done", !.attempt = 1, !.listeners = TRUE, !.connects = 1,
                         !.result = "ok"]

\* fed: samples received; verdicts: what detectVoiceActivity said of each chunk;
\* pending: the chunks of the frame in hand, from the one that awaits the reconnect;
\* stream: the adapter whose connect() is awaited
NoAudio == [pc |-> "none", fed |-> 0, verdicts |-> <<>>, pending |-> <<>>, stream |-> 0]

\* a bot without participants
\* new AudioBuffer(size), with the samples fed and the chunks emitted since the
\* construction or the last flush or reset, and what the last call returned
NewBuffer(size) ==
  [chunkSize |-> size, buffer |-> [i \in 1..size |-> 0], writeIndex |-> 0,
   fed |-> <<>>, emitted |-> <<>>, returned |-> [isNull |-> TRUE, samples |-> <<>>],
   last |-> "new"]

\* calls: the calls made and events delivered; steps: the steps taken; last: what the
\* last step was; closePc: where the close() in flight is; external: the
\* transcriber.close() calls; emitted: the events emitted, each with what isActive()
\* gave when its listeners ran; raised: a sendAudio or close call has thrown;
\* closed: close() has returned and connect() has not been called since
NoAdapterCalls ==
  [calls |-> 0, steps |-> 0, last |-> "none", closePc |-> "idle", external |-> 0,
   emitted |-> <<>>, raised |-> FALSE, closed |-> FALSE]

\* no float32ToInt16 call yet
NoPcm == [float32Array |-> <<>>, scaled |-> <<>>, int16Array |-> <<>>, returned |-> FALSE]

InitNoHandlers ==
  /\ participants = <<>>
  /\ handlers = [h \in JoinCalls |-> NoHandler]
  /\ streams = [a \in JoinCalls |-> NoStream]
  /\ totalSpeechDurationMs = 0
  /\ joinedCalls = [j \in JoinCalls |-> NoJoined]
  /\ leftCalls = [l \in LeftCalls |-> NoLeft]
  /\ leaveCall = NoLeave
  /\ audio = [h \in JoinCalls |-> NoAudio]

InitNoParticipants ==
  /\ audioBuffer = NewBuffer(chunkSize)
  /\ pcm = NoPcm
  /\ adapterCalls = NoAdapterCalls
  /\ InitNoHandlers

\* a bot that has been constructed and has not joined
InitNoBot ==
  /\ room = "null"
  /\ joinCall = NoJoin
  /\ InitNoParticipants

Init == InitRegistry /\ InitNoBot

\* an invocation is between its marking the room as joining and its try/catch outcome
MidCreationPcs == {"getRoomSettings", "createTranscriptionSession", "join"}

InFlight(c) == start[c].pc \notin {"idle", "done"}
MidCreation(c) == start[c].pc \in MidCreationPcs
StopInFlight(s) == stop[s].pc \notin {"idle", "done"}

\* invocations are numbered in the order in which they are made
NextStart(c) == start[c].pc = "idle" /\ \A d \in StartCalls : d < c => start[d].pc # "idle"
NextStop(s) == stop[s].pc = "idle" /\ \A t \in StopCalls : t < s => stop[t].pc # "idle"

(***************************************************************************)
(* startRoom                                                               *)
(***************************************************************************)
AlwaysFalse(roomId) == FALSE

\* if (this.activeRooms.has(roomId))
AlreadyActive(roomId) == activeRooms[roomId] # 0

\* if (this.joiningRooms.has(roomId))
AlreadyJoining(roomId) == roomId \in joiningRooms

\* startRoom up to its first await
StartRoom(c, roomId) ==
  /\ NextStart(c)
  /\ LET seen == IF AlreadyActive(roomId) THEN "active"
                 ELSE IF AlreadyJoining(roomId) THEN "joining" ELSE "unseen"
         call == [NoStart EXCEPT
                    !.roomId = roomId, !.seen = seen,
                    !.overlaps = {d \in StartCalls : InFlight(d) /\ start[d].roomId = roomId},
                    !.mids = {d \in StartCalls : MidCreation(d) /\ start[d].roomId = roomId}]
     IN IF seen = "unseen"
        THEN /\ joiningRooms' = joiningRooms \cup {roomId}
             /\ start' = [start EXCEPT ![c] = [call EXCEPT !.pc = "getRoomSettings"]]
        ELSE /\ joiningRooms' = joiningRooms
             /\ start' = [start EXCEPT ![c] = [call EXCEPT !.pc = "done", !.result = "true"]]
  /\ UNCHANGED <<activeRooms, stoppingRooms, stop, bot, completeCalls, botVars, stopAllCall>>

\* what getRoomSettings gives: null, a transcription mode, or an exception of getSupabase
SettingsResults == {"null", "off", "live", "post-call", "throws"}

NeverOff(settings) == FALSE

\* if (settings.transcriptionMode === 'off')
TranscriptionOff(settings) == settings = "off"

\* getRoomSettings settles; on an enabled mode createTranscriptionSession is called
SettingsReturn(c, settings) ==
  /\ start[c].pc = "getRoomSettings"
  /\ LET roomId == start[c].roomId
     IN IF settings = "throws"
        THEN /\ start' = [start EXCEPT ![c].pc = "done", ![c].settings = settings,
                                       ![c].result = "threw"]
             /\ joiningRooms' = joiningRooms
        ELSE IF settings = "null" \/ TranscriptionOff(settings)
        THEN /\ start' = [start EXCEPT ![c].pc = "done", ![c].settings = settings,
                                       ![c].result = "false"]
             /\ joiningRooms' = joiningRooms \ {roomId}
        ELSE /\ start' = [start EXCEPT ![c].pc = "createTranscriptionSession",
                                       ![c].settings = settings, ![c].created = 1]
             /\ joiningRooms' = joiningRooms
  /\ UNCHANGED <<activeRooms, stoppingRooms, stop, bot, completeCalls, botVars, stopAllCall>>

\* createTranscriptionSession settles; with a session id the bot is constructed and
\* join() is called
CreateReturn(c, ok) ==
  /\ start[c].pc = "createTranscriptionSession"
  /\ IF ok
     THEN /\ start' = [start EXCEPT ![c].pc = "join", ![c].sessionId = c]
          /\ bot' = [bot EXCEPT ![c].constructed = TRUE, ![c].joinCalls = @ + 1]
          /\ joiningRooms' = joiningRooms
     ELSE /\ start' = [start EXCEPT ![c].pc = "done", ![c].result = "false"]
          /\ joiningRooms' = joiningRooms \ {start[c].roomId}
          /\ bot' = bot
  /\ UNCHANGED <<activeRooms, stoppingRooms, stop, completeCalls, botVars, stopAllCall>>

\* the catch of startRoom keeps the joining mark
CatchJoinKeepsMark(c) ==
  /\ start' = [start EXCEPT ![c].pc = "leave", ![c].result = "false"]
  /\ joiningRooms' = joiningRooms
  /\ bot' = [bot EXCEPT ![c].room = "null", ![c].leaveCalls = @ + 1]
  /\ UNCHANGED <<activeRooms, stoppingRooms, stop, completeCalls, botVars, stopAllCall>>

\* join() threw: the catch of startRoom up to its await of bot.leave()
CatchJoin(c) ==
  /\ start' = [start EXCEPT ![c].pc = "leave", ![c].result = "false"]
  /\ joiningRooms' = joiningRooms \ {start[c].roomId}
  /\ bot' = [bot EXCEPT ![c].room = "null", ![c].leaveCalls = @ + 1]
  /\ UNCHANGED <<activeRooms, stoppingRooms, stop, completeCalls, botVars, stopAllCall>>

\* bot.join() throws: no credentials, or the retries of room.connect are used up
JoinThrows(c) ==
  /\ start[c].pc = "join"
  /\ CatchJoin(c)

\* join() returned: the session is registered and the joining mark cleared
JoinReturn(c) ==
  /\ start[c].pc = "join"
  /\ activeRooms' = [activeRooms EXCEPT ![start[c].roomId] = c]
  /\ joiningRooms' = joiningRooms \ {start[c].roomId}
  /\ start' = [start EXCEPT ![c].pc = "done", ![c].result = "true"]
  /\ bot' = [bot EXCEPT ![c].room = "connected"]
  /\ UNCHANGED <<stoppingRooms, stop, completeCalls, botVars, stopAllCall>>

\* how bot.leave() ends: normally, or with room.disconnect() or dispose() throwing
LeaveResults == {"ok", "disconnectThrows", "disposeThrows"}

RoomAfterLeave(b, how) == IF how = "disconnectThrows" THEN bot[b].room ELSE "null"

\* the cleanup leave() of the catch settles; its errors are ignored
CleanupLeaveReturn(c, how) ==
  /\ start[c].pc = "leave"
  /\ start' = [start EXCEPT ![c].pc = "done"]
  /\ bot' = [bot EXCEPT ![c].room = RoomAfterLeave(c, how)]
  /\ UNCHANGED <<activeRooms, joiningRooms, stoppingRooms, stop, completeCalls, botVars,
                 stopAllCall>>

(***************************************************************************)
(* stopRoom                                                                *)
(***************************************************************************)
\* stopRoom up to its await of bot.leave(), as invocation s, on the bots botNow
StopRoomFrom(s, roomId, via, botNow) ==
  LET b == activeRooms[roomId]
      call == [NoStop EXCEPT
                 !.roomId = roomId, !.via = via, !.found = b,
                 !.overlaps = {t \in StopCalls : StopInFlight(t) /\ stop[t].roomId = roomId}]
  IN IF b = 0
     THEN /\ stop' = [stop EXCEPT ![s] = [call EXCEPT !.pc = "done", !.result = "noSession"]]
          /\ bot' = botNow
          /\ UNCHANGED <<activeRooms, stoppingRooms>>
     ELSE IF roomId \in stoppingRooms
     THEN /\ stop' = [stop EXCEPT ![s] = [call EXCEPT !.pc = "done", !.result = "stopping"]]
          /\ bot' = botNow
          /\ UNCHANGED <<activeRooms, stoppingRooms>>
     ELSE /\ stop' = [stop EXCEPT ![s] = [call EXCEPT !.pc = "leave", !.bot = b]]
          /\ stoppingRooms' = stoppingRooms \cup {roomId}
          /\ activeRooms' = [activeRooms EXCEPT ![roomId] = 0]
          /\ bot' = [botNow EXCEPT ![b].leaveCalls = @ + 1]

\* a room-finished or manual-stop trigger
StopRoom(s, roomId) ==
  /\ NextStop(s)
  /\ StopRoomFrom(s, roomId, 0, bot)
  /\ UNCHANGED <<joiningRooms, start, completeCalls, botVars, stopAllCall>>

\* bot.leave() settles: completeTranscriptionSession is called, or the exception
\* leaves stopRoom through its finally
StopLeaveReturn(s, how) ==
  /\ stop[s].pc = "leave"
  /\ bot' = [bot EXCEPT ![stop[s].bot].room = RoomAfterLeave(stop[s].bot, how)]
  /\ IF how = "ok"
     THEN /\ stop' = [stop EXCEPT ![s].pc = "completeTranscriptionSession",
                                  ![s].left = stop[s].bot,
                                  ![s].completed = stop[s].bot]
          /\ completeCalls' = [completeCalls EXCEPT ![stop[s].bot] = @ + 1]
          /\ stoppingRooms' = stoppingRooms
     ELSE /\ stop' = [stop EXCEPT ![s].pc = "done", ![s].result = "threw"]
          /\ completeCalls' = completeCalls
          /\ stoppingRooms' = stoppingRooms \ {stop[s].roomId}
  /\ UNCHANGED <<activeRooms, joiningRooms, start, botVars, stopAllCall>>

\* completeTranscriptionSession settles: removeChannel, then the finally
CompleteReturn(s) ==
  /\ stop[s].pc = "completeTranscriptionSession"
  /\ stop' = [stop EXCEPT ![s].pc = "done", ![s].result = "stopped", ![s].removed = TRUE]
  /\ stoppingRooms' = stoppingRooms \ {stop[s].roomId}
  /\ UNCHANGED <<activeRooms, joiningRooms, start, bot, completeCalls, botVars, stopAllCall>>

(***************************************************************************)
(* The bot's 'disconnected' listener                                       *)
(***************************************************************************)
RoomOf(b) == start[b].roomId

ListenerAlwaysStops(b) == TRUE

\* if (this.activeRooms.has(roomId)) of the listener
ListenerStops(b) == activeRooms[RoomOf(b)] # 0

\* the transport of bot b drops (at most once per bot): RoomEvent.Disconnected makes the
\* bot emit 'disconnected', and the listener of startRoom runs
Disconnected(b, s) ==
  /\ start[b].pc = "join" \/ bot[b].room # "null"
  /\ ~bot[b].dropped
  /\ IF ListenerStops(b)
     THEN /\ NextStop(s)
          /\ StopRoomFrom(s, RoomOf(b), b, [bot EXCEPT ![b].dropped = TRUE])
     ELSE /\ s = 1
          /\ bot' = [bot EXCEPT ![b].dropped = TRUE, ![b].ignored = @ + 1]
          /\ UNCHANGED <<activeRooms, stoppingRooms, stop>>
  /\ UNCHANGED <<joiningRooms, start, completeCalls, botVars, stopAllCall>>

Next ==
  \/ \E c \in StartCalls, roomId \in Rooms : StartRoom(c, roomId)
  \/ \E c \in StartCalls, settings \in SettingsResults : SettingsReturn(c, settings)
  \/ \E c \in StartCalls, ok \in BOOLEAN : CreateReturn(c, ok)
  \/ \E c \in StartCalls : JoinThrows(c)
  \/ \E c \in StartCalls : JoinReturn(c)
  \/ \E c \in StartCalls, how \in LeaveResults : CleanupLeaveReturn(c, how)
  \/ \E s \in StopCalls, roomId \in Rooms : StopRoom(s, roomId)
  \/ \E s \in StopCalls, how \in LeaveResults : StopLeaveReturn(s, how)
  \/ \E s \in StopCalls : CompleteReturn(s)
  \/ \E b \in StartCalls, s \in StopCalls : Disconnected(b, s)

Spec == Init /\ [][Next]_vars

\* the steps that follow an await of startRoom or stopRoom
Settles ==
  \/ \E c \in StartCalls, settings \in SettingsResults : SettingsReturn(c, settings)
  \/ \E c \in StartCalls, ok \in BOOLEAN : CreateReturn(c, ok)
  \/ \E c \in StartCalls : JoinThrows(c)
  \/ \E c \in StartCalls : JoinReturn(c)
  \/ \E c \in StartCalls, how \in LeaveResults : CleanupLeaveReturn(c, how)
  \/ \E s \in StopCalls, how \in LeaveResults : StopLeaveReturn(s, how)
  \/ \E s \in StopCalls : CompleteReturn(s)

\* every promise awaited by the registry settles; no trigger has to come
SpecFair == Spec /\ WF_vars(Settles)

(***************************************************************************)
(* stopAll, at process shutdown. The registry holds two registered rooms;  *)
(* no startRoom runs during the shutdown.                                  *)
(***************************************************************************)
\* the sessions of r1 and r2 were started by the invocations 1 and 2
RegisteredRoom(c) == IF c = 1 THEN "r1" ELSE IF c = 2 THEN "r2" ELSE "none"

InitStopAll ==
  /\ activeRooms = [r \in RoomIds |-> IF r = "r1" THEN 1 ELSE 2]
  /\ joiningRooms = {}
  /\ stoppingRooms = {}
  /\ start = [c \in StartCalls |->
                IF RegisteredRoom(c) = "none" THEN NoStart
                ELSE [NoStart EXCEPT !.pc = "done", !.roomId = RegisteredRoom(c),
                                     !.settings = "live", !.created = 1, !.sessionId = c,
                                     !.result = "true", !.seen = "unseen"]]
  /\ stop = [s \in StopCalls |-> NoStop]
  /\ bot = [b \in StartCalls |->
              IF RegisteredRoom(b) = "none" THEN NoBot
              ELSE [NoBot EXCEPT !.constructed = TRUE, !.room = "connected", !.joinCalls = 1]]
  /\ completeCalls = [b \in StartCalls |-> 0]
  /\ stopAllCall = NoStopAll
  /\ InitNoBot

\* Array.from(this.activeRooms.keys()): the active rooms in the insertion order of the
\* Map, which is any order of them
KeyOrders ==
  LET active == {r \in RoomIds : activeRooms[r] # 0}
  IN {order \in [1..Cardinality(active) -> active] :
        \A i, k \in 1..Cardinality(active) : order[i] = order[k] => i = k}

\* stopAll calls stopRoom(roomIds[i]) as invocation s and awaits it
StopAllCalls(s, roomIds, i) ==
  /\ NextStop(s)
  /\ StopRoomFrom(s, roomIds[i], 0, bot)
  /\ stopAllCall' =
       [stopAllCall EXCEPT
          !.pc = "await", !.roomIds = roomIds, !.index = i, !.call = s,
          !.began = Append(@, [roomId |-> roomIds[i], call |-> s,
                               busy |-> IF i = 1 THEN {}
                                        ELSE {t \in StopCalls :
                                                /\ StopInFlight(t)
                                                /\ stop[t].roomId = roomIds[i - 1]}])]

\* stopAll is called: the snapshot of the keys, and the first stopRoom up to its await
StopAllBegin(s, roomIds) ==
  /\ stopAllCall.pc = "idle"
  /\ roomIds \in KeyOrders
  /\ IF roomIds = <<>>
     THEN /\ s = 1
          /\ stopAllCall' = [stopAllCall EXCEPT !.pc = "done"]
          /\ UNCHANGED <<activeRooms, stoppingRooms, stop, bot>>
     ELSE StopAllCalls(s, roomIds, 1)
  /\ UNCHANGED <<joiningRooms, start, completeCalls, botVars>>

\* the awaited stopRoom has settled: its rejection leaves stopAll, otherwise the loop
\* goes on to the next room id or ends
StopAllResume(s) ==
  /\ stopAllCall.pc = "await"
  /\ stop[stopAllCall.call].pc = "done"
  /\ IF stop[stopAllCall.call].result = "threw"
     THEN /\ s = 1
          /\ stopAllCall' = [stopAllCall EXCEPT !.pc = "threw"]
          /\ UNCHANGED <<activeRooms, stoppingRooms, stop, bot>>
     ELSE IF stopAllCall.index = Len(stopAllCall.roomIds)
     THEN /\ s = 1
          /\ stopAllCall' = [stopAllCall EXCEPT !.pc = "done"]
          /\ UNCHANGED <<activeRooms, stoppingRooms, stop, bot>>
     ELSE StopAllCalls(s, stopAllCall.roomIds, stopAllCall.index + 1)
  /\ UNCHANGED <<joiningRooms, start, completeCalls, botVars>>

NextStopAll ==
  \/ \E s \in StopCalls, roomIds \in KeyOrders : StopAllBegin(s, roomIds)
  \/ \E s \in StopCalls : StopAllResume(s)
  \/ \E s \in StopCalls, roomId \in RoomIds : StopRoom(s, roomId)
  \/ \E s \in StopCalls, how \in LeaveResults : StopLeaveReturn(s, how)
  \/ \E s \in StopCalls : CompleteReturn(s)
  \/ \E b \in StartCalls, s \in StopCalls : Disconnected(b, s)

SpecStopAll == InitStopAll /\ [][NextStopAll]_vars

(***************************************************************************)
(* vad.ts, on Int16 samples x standing for the Float32 value x / 32768     *)
(* (the division by a power of two is exact).                              *)
(***************************************************************************)
RECURSIVE SumSquares(_)
SumSquares(samples) ==
  IF samples = <<>> THEN 0
  ELSE Head(samples) * Head(samples) + SumSquares(Tail(samples))

\* calculateRMS(samples) > threshold, for the threshold 0.001 of processAudioFrame:
\* sqrt(sum / (32768^2 * length)) > 1/1000, that is sum * 15625 > length * 2^24,
\* written with a quotient to stay within 32 bits
detectVoiceActivity(samples) ==
  /\ Len(samples) > 0
  /\ SumSquares(samples) > (Len(samples) * 16777216) \div 15625

Min(a, b) == IF a < b THEN a ELSE b

\* f[1] + ... + f[n]
RECURSIVE Sum(_, _)
Sum(f, n) == IF n = 0 THEN 0 ELSE f[n] + Sum(f, n - 1)

\* addSamples pushing the buffer as it was before the copy
RECURSIVE addSamplesBeforeCopy(_, _, _, _, _)
addSamplesBeforeCopy(size, buffer, writeIndex, samples, chunks) ==
  IF samples = <<>>
  THEN [buffer |-> buffer, writeIndex |-> writeIndex, chunks |-> chunks]
  ELSE LET remaining == size - writeIndex
           toCopy == Min(remaining, Len(samples))
           filled == [i \in 1..size |->
                        IF i > writeIndex /\ i <= writeIndex + toCopy
                        THEN samples[i - writeIndex] ELSE buffer[i]]
           rest == SubSeq(samples, toCopy + 1, Len(samples))
       IN IF writeIndex + toCopy >= size
          THEN addSamplesBeforeCopy(size, filled, 0, rest, Append(chunks, buffer))
          ELSE addSamplesBeforeCopy(size, filled, writeIndex + toCopy, rest, chunks)

\* AudioBuffer.addSamples of a buffer of the given chunk size: the buffer, the write
\* index and the chunks emitted
RECURSIVE addSamplesOf(_, _, _, _, _)
addSamplesOf(size, buffer, writeIndex, samples, chunks) ==
  IF samples = <<>>
  THEN [buffer |-> buffer, writeIndex |-> writeIndex, chunks |-> chunks]
  ELSE LET remaining == size - writeIndex
           toCopy == Min(remaining, Len(samples))
           filled == [i \in 1..size |->
                        IF i > writeIndex /\ i <= writeIndex + toCopy
                        THEN samples[i - writeIndex] ELSE buffer[i]]
           rest == SubSeq(samples, toCopy + 1, Len(samples))
       IN IF writeIndex + toCopy >= size
          THEN addSamplesOf(size, filled, 0, rest, Append(chunks, filled))
          ELSE addSamplesOf(size, filled, writeIndex + toCopy, rest, chunks)

\* addSamples of the buffers of the participant handlers
addSamples(buffer, writeIndex, samples, chunks) ==
  addSamplesOf(chunkSize, buffer, writeIndex, samples, chunks)

\* AudioBuffer.flush: null, or a copy of the first writeIndex samples of the buffer
flush(buffer, writeIndex) ==
  IF writeIndex = 0 THEN [isNull |-> TRUE, samples |-> <<>>]
  ELSE [isNull |-> FALSE, samples |-> SubSeq(buffer, 1, writeIndex)]

\* (chunk.length / sampleRate) * 1000, kept in sixteenths of a millisecond, the unit
\* in which one sample at 16 kHz is 1
chunkDurationMs(chunk, rate) == (Len(chunk) * 16000) \div rate

(***************************************************************************)
(* The Map of participants: its entries in insertion order; a deleted      *)
(* entry stays in the list as Empty, which is what a running iterator of   *)
(* the Map steps over.                                                     *)
(***************************************************************************)
Empty == [id |-> "empty", handler |-> 0]

EntryOf(map, id) ==
  IF \E i \in 1..Len(map) : map[i].id = id
  THEN CHOOSE i \in 1..Len(map) : map[i].id = id
  ELSE 0

MapGet(map, id) == IF EntryOf(map, id) = 0 THEN 0 ELSE map[EntryOf(map, id)].handler

MapSet(map, id, h) ==
  IF EntryOf(map, id) = 0
  THEN Append(map, [id |-> id, handler |-> h])
  ELSE [map EXCEPT ![EntryOf(map, id)].handler = h]

MapDelete(map, id) == [i \in 1..Len(map) |-> IF map[i].id = id THEN Empty ELSE map[i]]

MapClear(map) == [i \in 1..Len(map) |-> Empty]

\* the entry a values() iterator that stands after entry i yields next, 0 at the end
NextEntry(map, i) ==
  IF \E k \in (i + 1)..Len(map) : map[k] # Empty
  THEN CHOOSE k \in (i + 1)..Len(map) :
         map[k] # Empty /\ \A m \in (i + 1)..(k - 1) : map[m] = Empty
  ELSE 0

(***************************************************************************)
(* AssemblyAIStream. connect() awaits the temporary token, then the        *)
(* session of the new transcriber; its 'open' listener sets isConnected.   *)
(***************************************************************************)
isActive(s) == s.isConnected

\* whether a try whose catch only logs throws to its caller when its body throws
Thrown(throws) == FALSE

\* connect() without its first line
connectAnyway(s) == [s EXCEPT !.connecting = "token", !.connectCalls = @ + 1]

\* connect() up to its first await; a connected adapter returns at once
connect(s) ==
  IF s.isConnected THEN s
  ELSE [s EXCEPT !.connecting = "token", !.connectCalls = @ + 1]

TokenReturn(s, ok) ==
  IF ok THEN [s EXCEPT !.connecting = "socket", !.transcriber = "new"]
  ELSE [s EXCEPT !.connecting = "no"]

\* the 'open' listener sets isConnected whatever close() did in between
SocketReturn(s, ok) ==
  IF ok THEN [s EXCEPT !.connecting = "no", !.isConnected = TRUE,
                       !.transcriber = IF @ = "new" THEN "open" ELSE @]
  ELSE [s EXCEPT !.connecting = "no"]

DropAudio(s) == s

sendAudio(s) ==
  IF ~s.isConnected \/ s.transcriber = "null" THEN s
  ELSE [s EXCEPT !.sent = @ + 1]

\* close() up to its await of transcriber.close(); without a transcriber it has
\* nothing to await
CloseBegin(s) == IF s.transcriber = "null" THEN [s EXCEPT !.isConnected = FALSE] ELSE s

\* close() that keeps the transcriber
CloseKeepsTranscriber(s, had) == [s EXCEPT !.isConnected = FALSE]

\* close() after the await; had: the call found a transcriber
CloseReturn(s, had) ==
  IF had THEN [s EXCEPT !.transcriber = "null", !.isConnected = FALSE] ELSE s

\* handler.audioStreamAbort?.abort()
Abort(h) == IF h.audioStreamAbort = "undefined" THEN h ELSE [h EXCEPT !.audioStreamAbort = "aborted"]

\* a 'close' listener that leaves isConnected as it is
OnCloseStaysConnected(s) == [s EXCEPT !.transcriber = "closed", !.closes = @ + 1]

\* the 'close' listener of the transcriber
OnClose(s) == [s EXCEPT !.isConnected = FALSE, !.transcriber = "closed", !.closes = @ + 1]

(***************************************************************************)
(* processAudioFrame: the loop over the chunks, up to the await of a       *)
(* reconnect. st holds the handler h, its adapter s, the verdicts and the  *)
(* chunks left when the loop suspends.                                     *)
(***************************************************************************)
NeverReconnect(s) == FALSE

NeedsReconnect(s) == ~isActive(s)

\* lines 335-341: forward the chunk and add its duration
ForwardChunk(st, chunk) ==
  [st EXCEPT !.s = sendAudio(st.s),
             !.h.speechDurationMs = @ + chunkDurationMs(chunk, sampleRate)]

\* what detectVoiceActivity says of a chunk
Verdict(chunk) == IF detectVoiceActivity(chunk) THEN "speech" ELSE "silence"

AlwaysSpeech(chunk) == TRUE

\* const hasSpeech = detectVoiceActivity(chunk, 0.001)
hasSpeech(chunk) == detectVoiceActivity(chunk)

RECURSIVE ProcessChunks(_, _)
ProcessChunks(st, chunks) ==
  IF chunks = <<>> THEN st
  ELSE LET seen == [st EXCEPT !.verdicts = Append(@, Verdict(Head(chunks)))]
       IN IF ~hasSpeech(Head(chunks))
          THEN ProcessChunks(seen, Tail(chunks))
          ELSE IF NeedsReconnect(st.s)
          THEN [seen EXCEPT !.s = connect(st.s), !.pending = chunks]
          ELSE ProcessChunks(ForwardChunk(seen, Head(chunks)), Tail(chunks))

\* the frames a track delivers
Frames == UNION {[1..n -> Samples] : n \in 1..MaxFrameLen}

\* the loop state after ProcessChunks has run for handler h from st
AfterChunks(h, st, fed) ==
  [pc |-> IF st.pending = <<>> THEN "await" ELSE "connect",
   fed |-> fed, verdicts |-> st.verdicts, pending |-> st.pending,
   stream |-> IF st.pending = <<>> THEN 0 ELSE st.h.stream]

\* one turn of the for-await loop of handleAudioTrack, with processAudioFrame up to
\* its first await
AudioFrame(h, samples) ==
  /\ audio[h].pc = "await"
  /\ audio[h].fed + Len(samples) <= MaxChunks * chunkSize
  /\ IF handlers[h].audioStreamAbort = "aborted"
     THEN /\ audio' = [audio EXCEPT ![h].pc = "ended"]
          /\ UNCHANGED <<handlers, streams>>
     ELSE LET r == addSamples(handlers[h].buffer, handlers[h].writeIndex, samples, <<>>)
              st == ProcessChunks(
                      [h |-> [handlers[h] EXCEPT !.buffer = r.buffer,
                                                 !.writeIndex = r.writeIndex],
                       s |-> streams[handlers[h].stream],
                       verdicts |-> audio[h].verdicts,
                       pending |-> <<>>],
                      r.chunks)
          IN /\ handlers' = [handlers EXCEPT ![h] = st.h]
             /\ streams' = [streams EXCEPT ![handlers[h].stream] = st.s]
             /\ audio' = [audio EXCEPT ![h] = AfterChunks(h, st, audio[h].fed + Len(samples))]
  /\ UNCHANGED <<rmVars, audioBuffer, pcm, adapterCalls, joinCall, room, participants,
                 totalSpeechDurationMs,
                 joinedCalls, leftCalls, leaveCall>>

\* the catch of processAudioFrame: return, the rest of the frame is not looked at
ReconnectFailed(h) ==
  audio' = [audio EXCEPT ![h].pc = "await", ![h].pending = <<>>, ![h].stream = 0]

\* createTemporaryToken settles for the reconnect of the loop of handler h
AudioConnectToken(h, ok) ==
  /\ audio[h].pc = "connect"
  /\ streams[audio[h].stream].connecting = "token"
  /\ streams' = [streams EXCEPT ![audio[h].stream] = TokenReturn(@, ok)]
  /\ IF ok THEN audio' = audio ELSE ReconnectFailed(h)
  /\ UNCHANGED <<rmVars, audioBuffer, pcm, adapterCalls, joinCall, room, participants,
                 handlers, totalSpeechDurationMs,
                 joinedCalls, leftCalls, leaveCall>>

\* transcriber.connect() settles for the reconnect of the loop of handler h; on
\* success the loop forwards the chunk that waited and goes on with the frame
AudioConnectSocket(h, ok) ==
  /\ audio[h].pc = "connect"
  /\ streams[audio[h].stream].connecting = "socket"
  /\ LET opened == [streams EXCEPT ![audio[h].stream] = SocketReturn(@, ok)]
         st == ProcessChunks(
                 ForwardChunk([h |-> handlers[h], s |-> opened[handlers[h].stream],
                               verdicts |-> audio[h].verdicts, pending |-> <<>>],
                              Head(audio[h].pending)),
                 Tail(audio[h].pending))
     IN IF ok
        THEN /\ handlers' = [handlers EXCEPT ![h] = st.h]
             /\ streams' = [opened EXCEPT ![handlers[h].stream] = st.s]
             /\ audio' = [audio EXCEPT ![h] = AfterChunks(h, st, audio[h].fed)]
        ELSE /\ handlers' = handlers
             /\ streams' = opened
             /\ ReconnectFailed(h)
  /\ UNCHANGED <<rmVars, audioBuffer, pcm, adapterCalls, joinCall, room, participants,
                 totalSpeechDurationMs,
                 joinedCalls, leftCalls, leaveCall>>

\* the session of adapter a ends (idle timeout of the service): the 'close' listener
\* of the transcriber, then the 'closed' listener of handleParticipantJoined
StreamClosed(a) ==
  /\ streams[a].transcriber = "open"
  /\ Sum([k \in JoinCalls |-> streams[k].closes], MaxJoins) < MaxCloses
  /\ streams' = [streams EXCEPT ![a] = OnClose(@)]
  /\ LET h == MapGet(participants, joinedCalls[a].participant)
     IN handlers' = IF h = 0 THEN handlers ELSE [handlers EXCEPT ![h].stream = a]
  /\ UNCHANGED <<rmVars, audioBuffer, pcm, adapterCalls, joinCall, room, participants,
                 totalSpeechDurationMs,
                 joinedCalls, leftCalls, leaveCall, audio>>

(***************************************************************************)
(* SpecAudio: one participant whose handler is set up and whose audio      *)
(* track is being read.                                                    *)
(***************************************************************************)
InitAudio ==
  /\ InitRegistry
  /\ pcm = NoPcm
  /\ adapterCalls = NoAdapterCalls
  /\ audioBuffer = NewBuffer(chunkSize)
  /\ room = "connected"
  /\ joinCall = Joined
  /\ participants = <<[id |-> "p1", handler |-> 1]>>
  /\ handlers = [h \in JoinCalls |->
                   IF h = 1 THEN [NoHandler EXCEPT !.participantId = "p1", !.stream = 1,
                                                   !.audioStreamAbort = "set"]
                   ELSE NoHandler]
  /\ streams = [a \in JoinCalls |->
                  IF a = 1 THEN [NoStream EXCEPT !.isConnected = TRUE, !.transcriber = "open",
                                                 !.connectCalls = 1]
                  ELSE NoStream]
  /\ totalSpeechDurationMs = 0
  /\ joinedCalls = [j \in JoinCalls |->
                      IF j = 1 THEN [NoJoined EXCEPT !.pc = "done", !.participant = "p1",
                                                     !.result = "ok"]
                      ELSE NoJoined]
  /\ leftCalls = [l \in LeftCalls |-> NoLeft]
  /\ leaveCall = NoLeave
  /\ audio = [h \in JoinCalls |-> IF h = 1 THEN [NoAudio EXCEPT !.pc = "await"] ELSE NoAudio]

NextAudio ==
  \/ \E samples \in Frames : AudioFrame(1, samples)
  \/ \E ok \in BOOLEAN : AudioConnectToken(1, ok)
  \/ \E ok \in BOOLEAN : AudioConnectSocket(1, ok)
  \/ StreamClosed(1)

SpecAudio == InitAudio /\ [][NextAudio]_vars

(***************************************************************************)
(* One AudioBuffer on its own: any chunk size, any sequence of addSamples, *)
(* flush and reset calls.                                                  *)
(***************************************************************************)
ChunkSizes == 1..(chunkSize + 1)

InitBuffer ==
  /\ InitRegistry
  /\ room = "null"
  /\ joinCall = NoJoin
  /\ InitNoHandlers
  /\ pcm = NoPcm
  /\ adapterCalls = NoAdapterCalls
  /\ \E size \in ChunkSizes : audioBuffer = NewBuffer(size)

BufferFrames == UNION {[1..n -> Samples] : n \in 0..MaxFrameLen}

BufferAdd(samples) ==
  /\ Len(audioBuffer.fed) + Len(samples) <= MaxSamples
  /\ LET r == addSamplesOf(audioBuffer.chunkSize, audioBuffer.buffer,
                           audioBuffer.writeIndex, samples, <<>>)
     IN audioBuffer' = [audioBuffer EXCEPT
                          !.buffer = r.buffer, !.writeIndex = r.writeIndex,
                          !.fed = @ \o samples, !.emitted = @ \o r.chunks,
                          !.returned = [isNull |-> TRUE, samples |-> <<>>],
                          !.last = "addSamples"]
  /\ UNCHANGED <<rmVars, pcm, adapterCalls, room, participants, handlers, streams,
                 totalSpeechDurationMs,
                 joinedCalls, leftCalls, leaveCall, audio, joinCall>>

BufferFlush ==
  /\ audioBuffer' = [audioBuffer EXCEPT
                       !.returned = flush(audioBuffer.buffer, audioBuffer.writeIndex),
                       !.writeIndex = 0, !.fed = <<>>, !.emitted = <<>>,
                       !.last = "flush"]
  /\ UNCHANGED <<rmVars, pcm, adapterCalls, room, participants, handlers, streams,
                 totalSpeechDurationMs,
                 joinedCalls, leftCalls, leaveCall, audio, joinCall>>

BufferReset ==
  /\ audioBuffer' = [audioBuffer EXCEPT
                       !.returned = [isNull |-> TRUE, samples |-> <<>>],
                       !.writeIndex = 0, !.fed = <<>>, !.emitted = <<>>,
                       !.last = "reset"]
  /\ UNCHANGED <<rmVars, pcm, adapterCalls, room, participants, handlers, streams,
                 totalSpeechDurationMs,
                 joinedCalls, leftCalls, leaveCall, audio, joinCall>>

NextBuffer ==
  \/ \E samples \in BufferFrames : BufferAdd(samples)
  \/ BufferFlush
  \/ BufferReset

SpecBuffer == InitBuffer /\ [][NextBuffer]_vars

(***************************************************************************)
(* float32ToInt16. A Float32 sample is NaN, an infinity, or the number     *)
(* num / FloatDen.                                                         *)
(***************************************************************************)
FloatDen == 65536

Number(n) == [kind |-> "number", num |-> n]
NaN == [kind |-> "NaN", num |-> 0]
PosInfinity == [kind |-> "Infinity", num |-> 0]
NegInfinity == [kind |-> "-Infinity", num |-> 0]

FloatSamples ==
  {Number(n) : n \in {-2 * FloatDen, -FloatDen - 1, -FloatDen, -FloatDen + 1,
                      -(FloatDen \div 2), -3, -1, 0, 1, 3, FloatDen \div 2,
                      FloatDen - 1, FloatDen, FloatDen + 1, 2 * FloatDen}}
    \cup {NaN, PosInfinity, NegInfinity}

\* Math.min(1, x) and Math.max(-1, x): NaN if an argument is NaN
MathMin1(x) ==
  IF x.kind = "NaN" THEN NaN
  ELSE IF x.kind = "Infinity" THEN Number(FloatDen)
  ELSE IF x.kind = "-Infinity" THEN x
  ELSE IF x.num > FloatDen THEN Number(FloatDen) ELSE x

MathMaxMinus1(x) ==
  IF x.kind = "NaN" THEN NaN
  ELSE IF x.kind = "-Infinity" THEN Number(-FloatDen)
  ELSE IF x.kind = "Infinity" THEN x
  ELSE IF x.num < -FloatDen THEN Number(-FloatDen) ELSE x

\* the integer part of a / b, towards zero
Trunc(a, b) == IF a >= 0 THEN a \div b ELSE -((-a) \div b)

\* s * 0x8000 for both signs
ScaleSymmetric(s) ==
  IF s.kind = "NaN" THEN 0 ELSE Trunc(s.num, FloatDen \div 32768)

\* s < 0 ? s * 0x8000 : s * 0x7FFF, and the integer part that the store into the
\* Int16Array takes of it (0 for NaN); (num / FloatDen) * 0x8000 is written as
\* num / (FloatDen / 0x8000), which stays within 32 bits
Scale(s) ==
  IF s.kind = "NaN" THEN 0
  ELSE IF s.num < 0 THEN Trunc(s.num, FloatDen \div 32768)
  ELSE Trunc(s.num * 32767, FloatDen)

\* the store into an Int16Array element: modulo 2^16, as a signed value
ToInt16(v) == ((v + 32768) % 65536) - 32768

float32ToInt16(float32Array) ==
  [i \in 1..Len(float32Array) |->
     ToInt16(Scale(MathMaxMinus1(MathMin1(float32Array[i]))))]

FloatChunks == UNION {[1..n -> FloatSamples] : n \in 1..chunkSize}

\* a chunk that is about to be converted
InitConvert ==
  /\ InitRegistry
  /\ room = "null"
  /\ joinCall = NoJoin
  /\ audioBuffer = NewBuffer(chunkSize)
  /\ adapterCalls = NoAdapterCalls
  /\ InitNoHandlers
  /\ \E chunk \in FloatChunks : pcm = [NoPcm EXCEPT !.float32Array = chunk]

\* const int16Chunk = float32ToInt16(chunk)
Convert ==
  /\ ~pcm.returned
  /\ pcm' = [pcm EXCEPT
               !.scaled = [i \in 1..Len(pcm.float32Array) |->
                             Scale(MathMaxMinus1(MathMin1(pcm.float32Array[i])))],
               !.int16Array = float32ToInt16(pcm.float32Array),
               !.returned = TRUE]
  /\ UNCHANGED <<rmVars, audioBuffer, adapterCalls, room, participants, handlers, streams,
                 totalSpeechDurationMs, joinedCalls, leftCalls, leaveCall, audio, joinCall>>

NextConvert == Convert

SpecConvert == InitConvert /\ [][NextConvert]_vars

(***************************************************************************)
(* One AssemblyAIStream on its own, as adapter 1: any sequence of          *)
(* connect(), sendAudio() and close() calls and of events of its           *)
(* transcriber. One connect() and one close() are in flight at a time.     *)
(***************************************************************************)
InitAdapter ==
  /\ InitRegistry
  /\ room = "null"
  /\ joinCall = NoJoin
  /\ audioBuffer = NewBuffer(chunkSize)
  /\ pcm = NoPcm
  /\ adapterCalls = NoAdapterCalls
  /\ InitNoHandlers

MoreCalls == adapterCalls.calls < MaxAdapterCalls

\* the history after a step; a call or an event counts as a call
Called(what) == [adapterCalls EXCEPT !.calls = @ + 1, !.steps = @ + 1, !.last = what]
Returned(what) == [adapterCalls EXCEPT !.steps = @ + 1, !.last = what]

\* this.emit(event), with what isActive() gives to the listeners
Emit(calls, event, s) ==
  [calls EXCEPT !.emitted = Append(@, [event |-> event, isActive |-> isActive(s)])]

AdapterUnchanged ==
  UNCHANGED <<rmVars, audioBuffer, pcm, room, participants, handlers, totalSpeechDurationMs,
              joinedCalls, leftCalls, leaveCall, audio, joinCall>>

\* connect() up to its first await, or its return when the adapter is connected
AdapterConnect ==
  /\ MoreCalls
  /\ streams[1].connecting = "no"
  /\ streams' = [streams EXCEPT ![1] = connect(@)]
  /\ adapterCalls' = [Called(IF isActive(streams[1]) THEN "connect returned at once"
                             ELSE "connect") EXCEPT !.closed = FALSE]
  /\ AdapterUnchanged

\* createTemporaryToken settles
AdapterToken(ok) ==
  /\ streams[1].connecting = "token"
  /\ streams' = [streams EXCEPT ![1] = TokenReturn(@, ok)]
  /\ adapterCalls' = Returned(IF ok THEN "token" ELSE "connect threw")
  /\ AdapterUnchanged

\* transcriber.connect() settles; on success the 'open' listener has run
AdapterSocket(ok) ==
  /\ streams[1].connecting = "socket"
  /\ streams' = [streams EXCEPT ![1] = SocketReturn(@, ok)]
  /\ adapterCalls' = IF ok THEN Emit(Returned("open"), "connected", streams'[1])
                     ELSE Returned("connect threw")
  /\ AdapterUnchanged

\* sendAudio(audioData); the external send may throw
AdapterSend(throws) ==
  /\ MoreCalls
  /\ streams' = [streams EXCEPT ![1] = sendAudio(@)]
  /\ adapterCalls' = [Called("sendAudio") EXCEPT
                        !.raised = @ \/ (streams'[1].sent # streams[1].sent /\ Thrown(throws))]
  /\ AdapterUnchanged

\* close() up to its await of transcriber.close(), or its return without a transcriber
AdapterClose ==
  /\ MoreCalls
  /\ adapterCalls.closePc = "idle"
  /\ streams' = [streams EXCEPT ![1] = CloseBegin(@)]
  /\ adapterCalls' =
       IF streams[1].transcriber = "null"
       THEN [Called("close returned") EXCEPT !.closed = TRUE]
       ELSE [Called("close") EXCEPT !.closePc = "await", !.external = @ + 1]
  /\ AdapterUnchanged

\* transcriber.close() settles, with or without an exception
AdapterCloseReturn(throws) ==
  /\ adapterCalls.closePc = "await"
  /\ streams' = [streams EXCEPT ![1] = CloseReturn(@, TRUE)]
  /\ adapterCalls' = [Returned("close returned") EXCEPT
                        !.closePc = "idle", !.raised = @ \/ Thrown(throws),
                        !.closed = TRUE]
  /\ AdapterUnchanged

\* the session of the transcriber ends: its 'close' listener runs
AdapterOnClose ==
  /\ MoreCalls
  /\ streams[1].transcriber = "open"
  /\ streams' = [streams EXCEPT ![1] = OnClose(@)]
  /\ adapterCalls' = Emit(Called("closed"), "closed", streams'[1])
  /\ AdapterUnchanged

\* the 'error' listener of the transcriber runs
AdapterOnError ==
  /\ MoreCalls
  /\ streams[1].transcriber \in {"new", "open"}
  /\ streams' = streams
  /\ adapterCalls' = Emit(Called("error"), "error", streams'[1])
  /\ AdapterUnchanged

NextAdapter ==
  \/ AdapterConnect
  \/ \E ok \in BOOLEAN : AdapterToken(ok)
  \/ \E ok \in BOOLEAN : AdapterSocket(ok)
  \/ \E throws \in BOOLEAN : AdapterSend(throws)
  \/ AdapterClose
  \/ \E throws \in BOOLEAN : AdapterCloseReturn(throws)
  \/ AdapterOnClose
  \/ AdapterOnError

SpecAdapter == InitAdapter /\ [][NextAdapter]_vars

(***************************************************************************)
(* The participants of a bot: handleParticipantJoined, handleAudioTrack,   *)
(* handleParticipantLeft and leave().                                      *)
(***************************************************************************)
NextJoined(j) ==
  joinedCalls[j].pc = "idle" /\ \A k \in DOMAIN joinedCalls : k < j => joinedCalls[k].pc # "idle"

NextLeft(l) ==
  leftCalls[l].pc = "idle" /\ \A k \in LeftCalls : k < l => leftCalls[k].pc # "idle"

\* handleParticipantJoined(p), invocation j, up to its await of stream.connect()
HandleJoined(j, p) ==
  IF p = BOT_IDENTITY
  THEN /\ joinedCalls' = [joinedCalls EXCEPT ![j] =
                           [NoJoined EXCEPT !.pc = "done", !.participant = p,
                                            !.result = "skipped"]]
       /\ streams' = streams
  ELSE /\ joinedCalls' = [joinedCalls EXCEPT ![j] =
                           [NoJoined EXCEPT !.pc = "connect", !.participant = p]]
       /\ streams' = [streams EXCEPT ![j] = connect(NoStream)]

\* the ParticipantConnected listener
ParticipantJoined(j, p) ==
  /\ NextJoined(j)
  /\ room # "null"
  /\ HandleJoined(j, p)
  /\ UNCHANGED <<rmVars, audioBuffer, pcm, adapterCalls, joinCall, room, participants,
                 handlers, totalSpeechDurationMs,
                 leftCalls, leaveCall, audio>>

\* createTemporaryToken settles for the connect() of handleParticipantJoined; a
\* failure ends in its catch
JoinConnectToken(j, ok) ==
  /\ joinedCalls[j].pc = "connect"
  /\ streams[j].connecting = "token"
  /\ streams' = [streams EXCEPT ![j] = TokenReturn(@, ok)]
  /\ joinedCalls' = IF ok THEN joinedCalls
                    ELSE [joinedCalls EXCEPT ![j].pc = "done", ![j].result = "failed",
                                             ![j].rejected = Thrown(TRUE)]
  /\ UNCHANGED <<rmVars, audioBuffer, pcm, adapterCalls, joinCall, room, participants,
                 handlers, totalSpeechDurationMs,
                 leftCalls, leaveCall, audio>>

\* transcriber.connect() settles: the handler is registered and, if the participant
\* has an audio track already, handleAudioTrack starts its loop
JoinConnectSocket(j, ok, hasTrack) ==
  /\ joinedCalls[j].pc = "connect"
  /\ streams[j].connecting = "socket"
  /\ streams' = [streams EXCEPT ![j] = SocketReturn(@, ok)]
  /\ IF ok
     THEN /\ joinedCalls' = [joinedCalls EXCEPT ![j].pc = "done", ![j].result = "ok"]
          /\ participants' = MapSet(participants, joinedCalls[j].participant, j)
          /\ handlers' = [handlers EXCEPT ![j] =
                           [NoHandler EXCEPT
                              !.participantId = joinedCalls[j].participant,
                              !.stream = j,
                              !.audioStreamAbort = IF hasTrack THEN "set" ELSE "undefined"]]
          /\ audio' = IF hasTrack THEN [audio EXCEPT ![j].pc = "await"] ELSE audio
     ELSE /\ hasTrack = FALSE
          /\ joinedCalls' = [joinedCalls EXCEPT ![j].pc = "done", ![j].result = "failed",
                                                ![j].rejected = Thrown(TRUE)]
          /\ UNCHANGED <<participants, handlers, audio>>
  /\ UNCHANGED <<rmVars, audioBuffer, pcm, adapterCalls, joinCall, room,
                 totalSpeechDurationMs, leftCalls, leaveCall>>

\* TrackSubscribed: handleAudioTrack for the first audio track of the participant
TrackSubscribed(p) ==
  /\ room # "null"
  /\ MapGet(participants, p) # 0
  /\ audio[MapGet(participants, p)].pc = "none"
  /\ handlers' = [handlers EXCEPT ![MapGet(participants, p)].audioStreamAbort = "set"]
  /\ audio' = [audio EXCEPT ![MapGet(participants, p)].pc = "await"]
  /\ UNCHANGED <<rmVars, audioBuffer, pcm, adapterCalls, joinCall, room, participants,
                 streams, totalSpeechDurationMs,
                 joinedCalls, leftCalls, leaveCall>>

\* handleParticipantLeft up to its await of stream.close()
ParticipantLeft(l, p) ==
  /\ NextLeft(l)
  /\ room # "null"
  /\ LET h == MapGet(participants, p)
         before == {j \in DOMAIN joinedCalls : joinedCalls[j].participant = p}
     IN IF h = 0
        THEN /\ leftCalls' = [leftCalls EXCEPT ![l] = [NoLeft EXCEPT !.pc = "done",
                                                                     !.participant = p,
                                                                     !.joined = before]]
             /\ UNCHANGED <<handlers, streams>>
        ELSE /\ leftCalls' = [leftCalls EXCEPT ![l] =
                                [pc |-> "close", participant |-> p, handler |-> h,
                                 stream |-> handlers[h].stream,
                                 had |-> streams[handlers[h].stream].transcriber # "null",
                                 joined |-> before]]
             /\ handlers' = [handlers EXCEPT ![h] = Abort(@)]
             /\ streams' = [streams EXCEPT ![handlers[h].stream] = CloseBegin(@)]
  /\ UNCHANGED <<rmVars, audioBuffer, pcm, adapterCalls, joinCall, room, participants,
                 totalSpeechDurationMs,
                 joinedCalls, leaveCall, audio>>

\* this.totalSpeechDurationMs += handler.speechDurationMs
AddSpeech(total, h) == total + h.speechDurationMs

\* stream.close() settles for handleParticipantLeft: the speech duration of its
\* handler goes into the total and the entry of the participant is deleted
LeftCloseReturn(l) ==
  /\ leftCalls[l].pc = "close"
  /\ streams' = [streams EXCEPT ![leftCalls[l].stream] = CloseReturn(@, leftCalls[l].had)]
  /\ totalSpeechDurationMs' = AddSpeech(totalSpeechDurationMs, handlers[leftCalls[l].handler])
  /\ handlers' = [handlers EXCEPT ![leftCalls[l].handler].added = @ + 1]
  /\ participants' = MapDelete(participants, leftCalls[l].participant)
  /\ leftCalls' = [leftCalls EXCEPT ![l].pc = "done"]
  /\ UNCHANGED <<rmVars, audioBuffer, pcm, adapterCalls, joinCall, room, joinedCalls,
                 leaveCall, audio>>

\* leave(): the for-of loop goes to the entry after entry from, with the handlers hs
\* and the adapters ss; at the end of the Map it clears the Map and goes on to
\* room.disconnect()
LeaveAdvance(call, from, hs, ss) ==
  LET next == NextEntry(participants, from)
      h == participants[next].handler
  IN IF next = 0
     THEN /\ participants' = MapClear(participants)
          /\ handlers' = hs
          /\ streams' = ss
          /\ leaveCall' = [call EXCEPT
                             !.pc = IF room # "null" THEN "disconnect" ELSE "dispose",
                             !.index = from, !.handler = 0, !.stream = 0, !.had = FALSE]
     ELSE /\ participants' = participants
          /\ handlers' = [hs EXCEPT ![h] = Abort(@)]
          /\ streams' = [ss EXCEPT ![hs[h].stream] = CloseBegin(@)]
          /\ leaveCall' = [call EXCEPT
                             !.pc = "close", !.index = next, !.handler = h,
                             !.stream = hs[h].stream,
                             !.had = ss[hs[h].stream].transcriber # "null"]

\* leave() up to its first await
LeaveBegin ==
  /\ leaveCall.pc = "idle"
  /\ LeaveAdvance([leaveCall EXCEPT
                     !.existed = {h \in DOMAIN handlers : handlers[h].participantId # "none"}],
                  0, handlers, streams)
  /\ UNCHANGED <<rmVars, audioBuffer, pcm, adapterCalls, joinCall, room,
                 totalSpeechDurationMs, joinedCalls, leftCalls, audio>>

\* stream.close() settles for leave(): the speech duration of the handler in hand
\* goes into the total and the loop goes on
LeaveCloseReturn ==
  /\ leaveCall.pc = "close"
  /\ totalSpeechDurationMs' = AddSpeech(totalSpeechDurationMs, handlers[leaveCall.handler])
  /\ LeaveAdvance(leaveCall, leaveCall.index,
                  [handlers EXCEPT ![leaveCall.handler].added = @ + 1],
                  [streams EXCEPT ![leaveCall.stream] = CloseReturn(@, leaveCall.had)])
  /\ UNCHANGED <<rmVars, audioBuffer, pcm, adapterCalls, joinCall, room, joinedCalls,
                 leftCalls, audio>>

\* room.disconnect() settles
LeaveDisconnectReturn(ok) ==
  /\ leaveCall.pc = "disconnect"
  /\ IF ok
     THEN /\ room' = "null"
          /\ leaveCall' = [leaveCall EXCEPT !.pc = "dispose"]
     ELSE /\ room' = room
          /\ leaveCall' = [leaveCall EXCEPT !.pc = "done", !.result = "threw"]
  /\ UNCHANGED <<rmVars, audioBuffer, pcm, adapterCalls, joinCall, participants, handlers,
                 streams, totalSpeechDurationMs,
                 joinedCalls, leftCalls, audio>>

\* dispose() settles and leave() returns the total
LeaveDisposeReturn(ok) ==
  /\ leaveCall.pc = "dispose"
  /\ leaveCall' = IF ok
                  THEN [leaveCall EXCEPT !.pc = "done", !.result = "ok",
                                         !.speechDurationMs = totalSpeechDurationMs]
                  ELSE [leaveCall EXCEPT !.pc = "done", !.result = "threw"]
  /\ UNCHANGED <<rmVars, audioBuffer, pcm, adapterCalls, joinCall, room, participants,
                 handlers, streams, totalSpeechDurationMs,
                 joinedCalls, leftCalls, audio>>

(***************************************************************************)
(* SpecBot: one bot that has joined its room, and the participants that    *)
(* come, speak and go until the bot leaves.                                *)
(***************************************************************************)
InitBot ==
  /\ InitRegistry
  /\ room = "connected"
  /\ joinCall = Joined
  /\ InitNoParticipants

\* what a participant says: whole chunks of loud samples
Speech == {[i \in 1..chunkSize |-> Loud]}

\* the events the transport and the service have delivered to the bot
Events ==
  Cardinality({j \in JoinCalls : joinedCalls[j].pc # "idle"})
  + Cardinality({l \in LeftCalls : leftCalls[l].pc # "idle"})
  + Sum([k \in JoinCalls |-> audio[k].fed \div chunkSize], MaxJoins)
  + Sum([k \in JoinCalls |-> streams[k].closes], MaxJoins)

More == Events < MaxEvents

NextBot ==
  \/ \E j \in JoinCalls, p \in ParticipantIds \cup {BOT_IDENTITY} :
       More /\ ParticipantJoined(j, p)
  \/ \E j \in JoinCalls, ok \in BOOLEAN : JoinConnectToken(j, ok)
  \/ \E j \in JoinCalls, ok \in BOOLEAN, hasTrack \in BOOLEAN : JoinConnectSocket(j, ok, hasTrack)
  \/ \E p \in ParticipantIds : TrackSubscribed(p)
  \/ \E h \in JoinCalls, samples \in Speech : More /\ AudioFrame(h, samples)
  \/ \E h \in JoinCalls, ok \in BOOLEAN : AudioConnectToken(h, ok)
  \/ \E h \in JoinCalls, ok \in BOOLEAN : AudioConnectSocket(h, ok)
  \/ \E a \in JoinCalls : More /\ StreamClosed(a)
  \/ \E l \in LeftCalls, p \in ParticipantIds : More /\ ParticipantLeft(l, p)
  \/ \E l \in LeftCalls : LeftCloseReturn(l)
  \/ LeaveBegin
  \/ LeaveCloseReturn
  \/ \E ok \in BOOLEAN : LeaveDisconnectReturn(ok)
  \/ \E ok \in BOOLEAN : LeaveDisposeReturn(ok)

SpecBot == InitBot /\ [][NextBot]_vars

(***************************************************************************)
(* SpecRejoin: a joined bot and handleParticipantJoined invocations, one   *)
(* more than SpecBot has, so that a participant can be handled twice.      *)
(***************************************************************************)
Rejoins == 1..(MaxJoins + 1)

InitRejoin ==
  /\ InitRegistry
  /\ room = "connected"
  /\ joinCall = Joined
  /\ audioBuffer = NewBuffer(chunkSize)
  /\ pcm = NoPcm
  /\ adapterCalls = NoAdapterCalls
  /\ participants = <<>>
  /\ handlers = [h \in Rejoins |-> NoHandler]
  /\ streams = [a \in Rejoins |-> NoStream]
  /\ totalSpeechDurationMs = 0
  /\ joinedCalls = [j \in Rejoins |-> NoJoined]
  /\ leftCalls = [l \in LeftCalls |-> NoLeft]
  /\ leaveCall = NoLeave
  /\ audio = [h \in Rejoins |-> NoAudio]

NextRejoin ==
  \/ \E j \in Rejoins, p \in ParticipantIds \cup {BOT_IDENTITY} : ParticipantJoined(j, p)
  \/ \E j \in Rejoins, ok \in BOOLEAN : JoinConnectToken(j, ok)
  \/ \E j \in Rejoins, ok \in BOOLEAN, hasTrack \in BOOLEAN : JoinConnectSocket(j, ok, hasTrack)
  \/ \E p \in ParticipantIds : TrackSubscribed(p)
  \/ \E l \in LeftCalls, p \in ParticipantIds : ParticipantLeft(l, p)
  \/ \E l \in LeftCalls : LeftCloseReturn(l)
  \/ LeaveBegin
  \/ LeaveCloseReturn
  \/ \E ok \in BOOLEAN : LeaveDisconnectReturn(ok)
  \/ \E ok \in BOOLEAN : LeaveDisposeReturn(ok)

SpecRejoin == InitRejoin /\ [][NextRejoin]_vars

\* every awaited call settles, and the bot is told to leave in the end
SpecRejoinFair == SpecRejoin /\ WF_vars(NextRejoin)

(***************************************************************************)
(* join(): the connect attempts with their backoff, then the enumeration   *)
(* of the participants found in the room.                                  *)
(***************************************************************************)
maxRetries == 3

FixedDelay(attempt) == 2000

\* const delay = attempt * 2000
delay(attempt) == attempt * 2000

\* the top of the for loop: new Room(), setupRoomEvents(), up to the await of
\* room.connect()
Attempt(n) ==
  /\ room' = "new"
  /\ joinCall' = [joinCall EXCEPT !.pc = "connect", !.attempt = n, !.listeners = TRUE,
                                  !.connects = @ + 1]

\* join() up to its await of generateToken(); it throws without LIVEKIT_URL
JoinBegin(urlOk) ==
  /\ joinCall.pc = "idle"
  /\ joinCall' = IF urlOk THEN [joinCall EXCEPT !.pc = "generateToken"]
                 ELSE [joinCall EXCEPT !.pc = "done", !.result = "threw"]
  /\ UNCHANGED <<rmVars, audioBuffer, pcm, adapterCalls, room, participants, handlers,
                 streams, totalSpeechDurationMs,
                 joinedCalls, leftCalls, leaveCall, audio>>

\* generateToken() settles; it throws without the API key and secret
JoinTokenReturn(ok) ==
  /\ joinCall.pc = "generateToken"
  /\ IF ok THEN Attempt(1)
     ELSE /\ room' = room
          /\ joinCall' = [joinCall EXCEPT !.pc = "done", !.result = "threw"]
  /\ UNCHANGED <<rmVars, audioBuffer, pcm, adapterCalls, participants, handlers, streams,
                 totalSpeechDurationMs,
                 joinedCalls, leftCalls, leaveCall, audio>>

\* the invocation of handleParticipantJoined that join() makes next
FreeJoined == CHOOSE j \in JoinCalls : NextJoined(j)

\* the for-of loop over room.remoteParticipants: handleParticipantJoined for the
\* next participant found, or the return of join()
Enumerate(call, found) ==
  IF found = <<>>
  THEN /\ joinCall' = [call EXCEPT !.pc = "done", !.result = "ok", !.present = <<>>,
                                   !.current = 0]
       /\ UNCHANGED <<joinedCalls, streams>>
  ELSE /\ joinCall' = [call EXCEPT !.pc = "enumerate", !.present = Tail(found),
                                   !.current = FreeJoined,
                                   !.enumerated = @ \cup {FreeJoined}]
       /\ HandleJoined(FreeJoined, Head(found))

\* the participants join() may find in the room, as many as there are invocations left
Found ==
  UNION {[1..n -> ParticipantIds \cup {BOT_IDENTITY}] :
           n \in 0..Cardinality({j \in JoinCalls : joinedCalls[j].pc = "idle"})}

\* room.connect() settles: on success the loop is left and the enumeration begins,
\* on failure the catch awaits room.disconnect()
JoinConnectReturn(ok, found) ==
  /\ joinCall.pc = "connect"
  /\ IF ok
     THEN /\ room' = "connected"
          /\ Enumerate(joinCall, found)
     ELSE /\ found = <<>>
          /\ room' = room
          /\ joinCall' = [joinCall EXCEPT !.pc = "disconnect"]
          /\ UNCHANGED <<joinedCalls, streams>>
  /\ UNCHANGED <<rmVars, audioBuffer, pcm, adapterCalls, participants, handlers,
                 totalSpeechDurationMs,
                 leftCalls, leaveCall, audio>>

\* the cleanup room.disconnect() settles, its error being ignored: the room is
\* dropped, and join() throws after the last attempt or waits before the next
JoinDisconnectReturn ==
  /\ joinCall.pc = "disconnect"
  /\ room' = "null"
  /\ joinCall' = IF joinCall.attempt = maxRetries
                 THEN [joinCall EXCEPT !.pc = "done", !.result = "threw",
                                       !.listeners = FALSE]
                 ELSE [joinCall EXCEPT !.pc = "backoff", !.listeners = FALSE,
                                       !.waits = Append(@, delay(joinCall.attempt))]
  /\ UNCHANGED <<rmVars, audioBuffer, pcm, adapterCalls, participants, handlers, streams,
                 totalSpeechDurationMs,
                 joinedCalls, leftCalls, leaveCall, audio>>

\* the timer of the backoff fires
JoinBackoffReturn ==
  /\ joinCall.pc = "backoff"
  /\ Attempt(joinCall.attempt + 1)
  /\ UNCHANGED <<rmVars, audioBuffer, pcm, adapterCalls, participants, handlers, streams,
                 totalSpeechDurationMs,
                 joinedCalls, leftCalls, leaveCall, audio>>

\* the handleParticipantJoined that join() awaits has returned
JoinEnumerateReturn ==
  /\ joinCall.pc = "enumerate"
  /\ joinedCalls[joinCall.current].pc = "done"
  /\ Enumerate(joinCall, joinCall.present)
  /\ UNCHANGED <<rmVars, audioBuffer, pcm, adapterCalls, room, participants, handlers,
                 totalSpeechDurationMs,
                 leftCalls, leaveCall, audio>>

(***************************************************************************)
(* SpecJoin: a bot from the call of join(), with the events its listeners  *)
(* handle once the room is connected.                                      *)
(***************************************************************************)
Listening == joinCall.listeners /\ room = "connected"

\* an invocation of handleParticipantJoined is left besides those join() will make
Spare == Cardinality({j \in JoinCalls : joinedCalls[j].pc = "idle"}) > Len(joinCall.present)

NextJoin ==
  \/ \E urlOk \in BOOLEAN : JoinBegin(urlOk)
  \/ \E ok \in BOOLEAN : JoinTokenReturn(ok)
  \/ \E ok \in BOOLEAN, found \in Found : JoinConnectReturn(ok, found)
  \/ JoinDisconnectReturn
  \/ JoinBackoffReturn
  \/ JoinEnumerateReturn
  \/ \E j \in JoinCalls, p \in ParticipantIds \cup {BOT_IDENTITY} :
       Listening /\ More /\ Spare /\ ParticipantJoined(j, p)
  \/ \E j \in JoinCalls, ok \in BOOLEAN : JoinConnectToken(j, ok)
  \/ \E j \in JoinCalls, ok \in BOOLEAN, hasTrack \in BOOLEAN : JoinConnectSocket(j, ok, hasTrack)
  \/ \E p \in ParticipantIds : Listening /\ TrackSubscribed(p)
  \/ \E l \in LeftCalls, p \in ParticipantIds : Listening /\ More /\ ParticipantLeft(l, p)
  \/ \E l \in LeftCalls : LeftCloseReturn(l)

SpecJoin == Init /\ [][NextJoin]_vars

\* every step of join() is taken in the end: the awaited calls settle
SpecJoinFair == SpecJoin /\ WF_vars(NextJoin)

(***************************************************************************)
(* Properties of the registry, checked under Spec.                         *)
(***************************************************************************)
Enabled(settings) == settings \in {"live", "post-call"}
CreatedBy(cs) == {c \in cs : start[c].created = 1}
BotsOf(cs) == {c \in cs : bot[c].constructed}
JoinedOf(cs) == {c \in cs : bot[c].joinCalls = 1}

\* C1 as stated: two startRoom calls for one room, the first finding neither a session
\* nor a joining mark and the second beginning before the first has finished, make
\* between them exactly one createTranscriptionSession call and construct and join
\* exactly one bot.
C1_ExactlyOneForOverlappingStarts ==
  \A c1, c2 \in StartCalls :
    ( /\ c1 # c2
      /\ start[c1].seen = "unseen"
      /\ c1 \in start[c2].overlaps
      /\ start[c1].pc = "done"
      /\ start[c2].pc = "done" )
    => /\ Cardinality(CreatedBy({c1, c2})) = 1
       /\ Cardinality(BotsOf({c1, c2})) = 1
       /\ Cardinality(JoinedOf({c1, c2})) = 1
       /\ \A c \in {c1, c2} : bot[c].joinCalls <= 1

\* C1 as amended: a startRoom call that begins while another call for the room is
\* mid-creation (between marking the room as joining and the outcome of join) has
\* returned true at once and created nothing; the two calls make at most one
\* createTranscriptionSession call and one bot, and exactly one of each as soon as the
\* first call's settings lookup has given an enabled mode, respectively its
\* createTranscriptionSession has given a session id.
C1_OneSessionForStartDuringCreation ==
  \A c1, c2 \in StartCalls :
    (c1 # c2 /\ c1 \in start[c2].mids)
    => /\ start[c2].pc = "done" /\ start[c2].result = "true"
       /\ start[c2].created = 0 /\ ~bot[c2].constructed /\ bot[c2].joinCalls = 0
       /\ Cardinality(CreatedBy({c1, c2})) <= 1
       /\ Cardinality(BotsOf({c1, c2})) <= 1
       /\ Enabled(start[c1].settings) => CreatedBy({c1, c2}) = {c1}
       /\ start[c1].sessionId # 0 => BotsOf({c1, c2}) = {c1} /\ bot[c1].joinCalls = 1

C1_Witness ==
  \E c1, c2 \in StartCalls :
    /\ c1 \in start[c2].mids
    /\ start[c1].pc = "done" /\ start[c1].result = "true"
    /\ start[c2].pc = "done"
    /\ activeRooms[start[c1].roomId] = c1

\* C2: of two stopRoom calls for a room with an active session, the second made while
\* the first has not finished, exactly one leave() and exactly one
\* completeTranscriptionSession are made for that session.
C2_OneLeaveOneCompleteForOverlappingStops ==
  \A s1, s2 \in StopCalls :
    ( /\ s1 # s2
      /\ stop[s1].bot # 0
      /\ s1 \in stop[s2].overlaps
      /\ stop[s1].pc = "done"
      /\ stop[s2].pc = "done" )
    => /\ bot[stop[s1].bot].leaveCalls = 1
       /\ completeCalls[stop[s1].bot] = 1

\* C3: per room, at most one startRoom call is mid-creation, and then the room is marked
\* joining; a room is never both active and marked joining; the entry of an active room
\* is a session whose join succeeded and that has not been left, and there is at most
\* one such session.
Registered(r) ==
  {b \in StartCalls : /\ start[b].roomId = r /\ start[b].seen = "unseen"
                      /\ start[b].result = "true" /\ bot[b].leaveCalls = 0}

C3_OneSessionPerRoom ==
  \A r \in Rooms :
    LET mid == {c \in StartCalls : MidCreation(c) /\ start[c].roomId = r}
    IN /\ Cardinality(mid) <= 1
       /\ mid # {} => r \in joiningRooms
       /\ ~(activeRooms[r] # 0 /\ r \in joiningRooms)
       /\ Cardinality(Registered(r)) <= 1
       /\ activeRooms[r] # 0 => Registered(r) = {activeRooms[r]}

C3_Witness ==
  \E c, d \in StartCalls, s \in StopCalls :
    /\ start[c].pc = "join"
    /\ stop[s].pc = "leave" /\ stop[s].bot = d
    /\ start[d].roomId = start[c].roomId

\* C4: a 'disconnected' of the bot of a startRoom call that is still mid-creation starts
\* no stopRoom: no stopRoom invocation is made, no leave(), no completion, and the
\* registry is left as it is.
C4_Step ==
  \A b \in StartCalls, s \in StopCalls :
    (MidCreation(b) /\ Disconnected(b, s))
    => /\ stop' = stop
       /\ activeRooms' = activeRooms
       /\ stoppingRooms' = stoppingRooms
       /\ completeCalls' = completeCalls
       /\ \A x \in StartCalls : bot'[x].leaveCalls = bot[x].leaveCalls

C4_DisconnectWhileJoiningIgnored == [][C4_Step]_vars

C4_Witness ==
  \E b \in StartCalls : start[b].pc = "join" /\ bot[b].dropped /\ bot[b].ignored = 1

\* C5: a startRoom call whose settings lookup gives mode 'off' returns false at that
\* point, having removed its joining mark, and never makes a createTranscriptionSession
\* call, constructs a bot or is registered.
C5_State ==
  \A c \in StartCalls :
    start[c].settings = "off"
    => /\ start[c].pc = "done" /\ start[c].result = "false"
       /\ start[c].created = 0 /\ start[c].sessionId = 0
       /\ bot[c] = NoBot
       /\ activeRooms[start[c].roomId] # c

C5_Step ==
  \A c \in StartCalls :
    (start[c].pc = "getRoomSettings" /\ start'[c].settings = "off")
    => /\ start[c].roomId \notin joiningRooms'
       /\ activeRooms' = activeRooms

C5_OffCreatesNothing == []C5_State /\ [][C5_Step]_vars

C5_Witness ==
  \E c \in StartCalls : start[c].settings = "off" /\ start[c].pc = "done"

\* C6: when join() throws, the catch clears the joining mark and calls leave() on the
\* bot; that is the only leave() the bot ever gets, the call returns false whatever
\* leave() does, and the call's session is never the entry of the room.
JoinFailed(c) == bot[c].constructed /\ start[c].result = "false"

C6_State ==
  \A c \in StartCalls :
    /\ JoinFailed(c) => /\ start[c].pc \in {"leave", "done"}
                        /\ bot[c].leaveCalls = 1
    /\ (bot[c].constructed /\ start[c].result # "true") => activeRooms[start[c].roomId] # c

C6_Step ==
  \A c \in StartCalls :
    (start[c].pc = "join" /\ start'[c].pc # "join" /\ start'[c].result # "true")
    => /\ JoinFailed(c)'
       /\ start[c].roomId \notin joiningRooms'
       /\ activeRooms' = activeRooms

C6_JoinFailureRegistersNothing == []C6_State /\ [][C6_Step]_vars

C6_Witness ==
  \E c \in StartCalls, d \in StartCalls :
    /\ JoinFailed(c) /\ start[c].pc = "done"
    /\ c \in start[d].overlaps /\ start[d].seen = "unseen"

\* C7: a startRoom call made while the room has a registered session, or while another
\* call for the room is mid-creation, returns true in the same step and changes nothing
\* else: no mark, no entry, no settings lookup, no accounting record, no bot.
C7_Step ==
  \A c \in StartCalls, r \in Rooms :
    ( /\ StartRoom(c, r)
      /\ \/ activeRooms[r] # 0
         \/ \E d \in StartCalls : MidCreation(d) /\ start[d].roomId = r )
    => /\ start'[c].pc = "done" /\ start'[c].result = "true"
       /\ start'[c].created = 0 /\ start'[c].settings = "none"
       /\ \A d \in StartCalls \ {c} : start'[d] = start[d]
       /\ UNCHANGED <<activeRooms, joiningRooms, stoppingRooms, stop, bot, completeCalls>>

C7_DuplicateStartIsNoOp == [][C7_Step]_vars

C7_Witness ==
  \E c \in StartCalls :
    /\ start[c].seen = "active" /\ start[c].pc = "done" /\ start[c].result = "true"
    /\ activeRooms[start[c].roomId] \notin {0, c}

\* C17: for a session that a stopRoom invocation has removed from the registry, the
\* accounting record is finalised once, after leave() has returned and with the
\* durations it returned, and the channel is released after the finalisation
C17_FinalisedOnceAfterLeave ==
  \A s \in StopCalls :
    stop[s].bot # 0 =>
      /\ stop[s].pc = "leave"
           => completeCalls[stop[s].bot] = 0 /\ ~stop[s].removed
      /\ stop[s].pc = "completeTranscriptionSession"
           => /\ completeCalls[stop[s].bot] = 1
              /\ stop[s].left = stop[s].bot
              /\ stop[s].completed = stop[s].left
              /\ ~stop[s].removed
      /\ stop[s].pc = "done"
           => /\ completeCalls[stop[s].bot] = 1
              /\ stop[s].completed = stop[s].bot
              /\ stop[s].removed

\* the transport of bot b drops in this step while b is the registered session of its
\* room and no stopRoom of that room is under way
DropsRegistered(b) ==
  /\ ~bot[b].dropped
  /\ bot'[b].dropped
  /\ activeRooms[RoomOf(b)] = b
  /\ RoomOf(b) \notin stoppingRooms

C18_Step ==
  \A b \in StartCalls :
    DropsRegistered(b) =>
      /\ activeRooms'[RoomOf(b)] = 0
      /\ bot'[b].leaveCalls = 1
      /\ \E s \in StopCalls : stop'[s].via = b /\ stop'[s].bot = b /\ stop'[s].pc = "leave"

C18_State ==
  \A s \in StopCalls :
    (stop[s].via # 0 /\ stop[s].bot = stop[s].via) =>
      /\ activeRooms[stop[s].roomId] # stop[s].bot
      /\ bot[stop[s].bot].leaveCalls = 1
      /\ completeCalls[stop[s].bot] <= 1
      /\ stop[s].pc = "done" => completeCalls[stop[s].bot] = 1

\* C18: when the transport of a registered room drops and no stopRoom is under way, the
\* 'disconnected' listener runs stopRoom for the room: the session leaves the active
\* set, leave() is invoked exactly once and the accounting record is finalised exactly
\* once
C18_DisconnectRunsStopRoom == []C18_State /\ [][C18_Step]_vars

(***************************************************************************)
(* Properties of stopAll, checked under SpecStopAll.                       *)
(***************************************************************************)
StopAllFinished == stopAllCall.pc \in {"done", "threw"}

SnapshotRooms == {stopAllCall.roomIds[i] : i \in 1..Len(stopAllCall.roomIds)}

\* C19: stopAll stops the rooms of its snapshot one after the other - no teardown of a
\* room is under way when the stopRoom of the next room begins - and when it has
\* finished, no room of the snapshot is active and the bot of each has had leave()
\* invoked
C19_StopAllStopsEveryRoomInTurn ==
  /\ \A k \in 1..Len(stopAllCall.began) :
       /\ stopAllCall.began[k].busy = {}
       /\ \A i \in 1..(k - 1) : ~StopInFlight(stopAllCall.began[i].call)
  /\ StopAllFinished =>
       \A r \in SnapshotRooms :
         /\ activeRooms[r] = 0
         /\ \A b \in StartCalls : RegisteredRoom(b) = r => bot[b].leaveCalls >= 1

\* C27: a room is marked as joining only while a startRoom invocation that marked it is
\* between the mark and the outcome of its creation; once that invocation has returned
\* or thrown, the mark is gone
C27_JoiningMarkIsCleared ==
  \A r \in joiningRooms :
    \E c \in StartCalls :
      /\ MidCreation(c)
      /\ start[c].roomId = r
      /\ start[c].seen = "unseen"

\* C28: every accounting record that createTranscriptionSession has created is
\* eventually completed, unless its session stays registered
C28_EveryRecordIsCompleted ==
  \A c \in StartCalls :
    (start[c].sessionId # 0)
      ~> (completeCalls[c] >= 1 \/ \E r \in RoomIds : activeRooms[r] = c)

\* startRoom invocation c is under way and stopRoom invocation s has not been made
StopNotYet(s, c) == InFlight(c) /\ stop[s].pc = "idle"

\* startRoom invocation c is under way and stopRoom invocation s has been made for
\* its room: after StopNotYet(s, c), s was made while c was under way
StoppedDuring(s, c) ==
  InFlight(c) /\ stop[s].pc # "idle" /\ stop[s].roomId = start[c].roomId

\* startRoom invocation c has ended and its session is not registered
SessionEnded(c) == start[c].pc = "done" /\ \A r \in RoomIds : activeRooms[r] # c

\* C29: when stopRoom is called for a room while a startRoom of that room is under
\* way, or while its session is registered, then eventually that startRoom has
\* ended and its session is not registered
C29_StopAfterStartEndsTheSession ==
  \A s \in StopCalls : \A c \in StartCalls :
    /\ (c = stop[s].found) ~> SessionEnded(c)
    /\ [](StopNotYet(s, c) => [](StoppedDuring(s, c) => <>SessionEnded(c)))

\* C30: a stopRoom call that found a session registered has removed that session
\* from the registry and called leave() on its bot, whatever other stopRoom of
\* the room was under way
C30_StopTakesTheSessionItFinds ==
  \A s \in StopCalls :
    (stop[s].pc # "idle" /\ stop[s].found # 0)
      => /\ stop[s].bot = stop[s].found
         /\ bot[stop[s].found].leaveCalls >= 1
         /\ \A r \in RoomIds : activeRooms[r] # stop[s].found

(***************************************************************************)
(* Properties of frame processing, checked under SpecAudio.                *)
(***************************************************************************)
CountSpeech(verdicts) == Cardinality({i \in DOMAIN verdicts : verdicts[i] = "speech"})

SpeechIn(chunks) == Cardinality({i \in DOMAIN chunks : detectVoiceActivity(chunks[i])})

\* C9: while the adapter of the handler has stayed connected, the chunks given to it
\* are as many as the chunks classified as speech, and the speech duration of the
\* handler is that number of chunks times chunk samples / sample rate (durations are
\* in sixteenths of a millisecond, hence the factor 16000)
C9_ForwardedChunksAreSpeechChunks ==
  streams[1].closes = 0 =>
    /\ streams[1].isConnected
    /\ streams[1].sent = CountSpeech(audio[1].verdicts)
    /\ handlers[1].speechDurationMs * sampleRate
         = CountSpeech(audio[1].verdicts) * chunkSize * 16000

C9_Witness ==
  /\ streams[1].closes = 0
  /\ audio[1].verdicts = <<"speech", "speech", "speech", "silence", "silence", "speech">>
  /\ streams[1].sent = 4
  /\ handlers[1].speechDurationMs * sampleRate = 4 * chunkSize * 16000

\* C10: when the adapter has reported 'closed' and a frame brings a chunk classified
\* as speech, that step makes one connect() call and forwards nothing; while the
\* connect() is awaited no second one is made; when it succeeds the chunk (and the
\* speech chunks behind it in the frame) are forwarded and their duration counted
C10_Step ==
  /\ ( /\ audio[1].pc = "await"
       /\ streams[1].closes > 0
       /\ ~streams[1].isConnected
       /\ CountSpeech(audio'[1].verdicts) > CountSpeech(audio[1].verdicts) )
     => /\ streams'[1].connectCalls = streams[1].connectCalls + 1
        /\ streams'[1].sent = streams[1].sent
        /\ handlers'[1].speechDurationMs = handlers[1].speechDurationMs
        /\ CountSpeech(audio'[1].verdicts) = CountSpeech(audio[1].verdicts) + 1
        /\ audio'[1].pc = "connect"
        /\ detectVoiceActivity(Head(audio'[1].pending))
  /\ audio[1].pc = "connect"
     => /\ streams'[1].connectCalls = streams[1].connectCalls
        /\ ~streams[1].isConnected
        /\ IF streams'[1].isConnected
           THEN /\ streams'[1].sent = streams[1].sent + SpeechIn(audio[1].pending)
                /\ SpeechIn(audio[1].pending) >= 1
                /\ handlers'[1].speechDurationMs * sampleRate
                     = handlers[1].speechDurationMs * sampleRate
                       + SpeechIn(audio[1].pending) * chunkSize * 16000
           ELSE /\ streams'[1].sent = streams[1].sent
                /\ handlers'[1].speechDurationMs = handlers[1].speechDurationMs

C10_OneReconnectBeforeForwarding == [][C10_Step]_vars

C10_Witness ==
  /\ streams[1].closes = 1
  /\ streams[1].connectCalls = 2
  /\ streams[1].isConnected
  /\ audio[1].verdicts = <<"speech">>
  /\ streams[1].sent = 1
  /\ handlers[1].speechDurationMs * sampleRate = chunkSize * 16000

(***************************************************************************)
(* Properties of the participants of a bot, checked under SpecBot.         *)
(***************************************************************************)
Existed(h) == handlers[h].participantId # "none"

\* C8: when leave() has returned and all the handlers of the room existed when it
\* was called, what it returns as speechDurationMs is the sum of the speech durations
\* of these handlers: each went into the total once, however handleParticipantLeft
\* and leave() were interleaved
C8_LeaveReturnsSumOfSpeechDurations ==
  ( /\ leaveCall.pc = "done"
    /\ leaveCall.result = "ok"
    /\ \A h \in JoinCalls : Existed(h) => h \in leaveCall.existed )
    => leaveCall.speechDurationMs
         = Sum([h \in JoinCalls |-> handlers[h].speechDurationMs], MaxJoins)

\* C11: when the reconnect awaited for a speech chunk fails, the handler stays
\* registered and its loop goes on, nothing is forwarded and no duration is added
\* for the chunk, and a speech chunk behind it in the same frame gets a connect()
\* call of its own
C11_Step ==
  ( /\ audio[1].pc = "connect"
    /\ ~streams'[1].isConnected
    /\ streams'[1].connecting # "socket" )
  => /\ MapGet(participants', "p1") = 1
     /\ audio'[1].pc # "ended"
     /\ streams'[1].sent = streams[1].sent
     /\ handlers'[1].speechDurationMs = handlers[1].speechDurationMs
     /\ SpeechIn(Tail(audio[1].pending)) > 0
          => /\ audio'[1].pc = "connect"
             /\ streams'[1].connectCalls = streams[1].connectCalls + 1

C11_FailedReconnectDropsOneChunk == [][C11_Step]_vars

\* the speech verdicts a step adds
NewSpeech == CountSpeech(audio'[1].verdicts) - CountSpeech(audio[1].verdicts)

\* C12: a chunk classified as silence is not forwarded, adds no duration and makes
\* no connect() call, whether the adapter is active or not: what a step forwards,
\* adds and connects is accounted for by its speech chunks alone, and a step whose
\* chunks are all silence changes none of the three
C12_Step ==
  /\ audio[1].pc = "await"
     => /\ streams'[1].sent - streams[1].sent <= NewSpeech
        /\ streams'[1].connectCalls - streams[1].connectCalls <= NewSpeech
        /\ (handlers'[1].speechDurationMs - handlers[1].speechDurationMs) * sampleRate
             <= NewSpeech * chunkSize * 16000
        /\ NewSpeech = 0 => audio'[1].pc \in {"await", "ended"}
  /\ audio[1].pc = "connect"
     => /\ streams'[1].sent - streams[1].sent <= SpeechIn(audio[1].pending)
        /\ streams'[1].connectCalls = streams[1].connectCalls
        /\ (handlers'[1].speechDurationMs - handlers[1].speechDurationMs) * sampleRate
             <= SpeechIn(audio[1].pending) * chunkSize * 16000

C12_SilenceIsDropped == [][C12_Step]_vars

\* a silence chunk before the first speech chunk, which was forwarded, and one after
\* the 'close' and the failed reconnect of the second speech chunk
C12_Witness ==
  /\ audio[1].verdicts = <<"silence", "speech", "speech", "silence">>
  /\ audio[1].pc = "await"
  /\ streams[1].closes = 1
  /\ streams[1].connectCalls = 2
  /\ ~streams[1].isConnected
  /\ streams[1].sent = 1
  /\ handlers[1].speechDurationMs * sampleRate = chunkSize * 16000

Aborted(h) == handlers[h].audioStreamAbort = "aborted"

\* C13: when handleParticipantLeft gets to the close() of the adapter it has
\* triggered the signal of the handler; once the signal of a handler has been
\* triggered, no chunk is forwarded to its adapter and no connect() is called on it,
\* even with a frame in flight
C13_Step ==
  /\ \A l \in LeftCalls :
       (leftCalls[l].pc = "idle" /\ leftCalls'[l].pc = "close")
         => handlers'[leftCalls'[l].handler].audioStreamAbort # "set"
  /\ \A h \in JoinCalls :
       Aborted(h) =>
         /\ streams'[handlers[h].stream].sent = streams[handlers[h].stream].sent
         /\ streams'[handlers[h].stream].connectCalls
              = streams[handlers[h].stream].connectCalls

C13_NothingForwardedAfterAbort == [][C13_Step]_vars

\* C14: when left(p) was delivered after joined(p) and both have been handled, no
\* handler is registered for p and the adapter made for p is not open
C14_LeftAfterJoinedRemovesHandler ==
  \A l \in LeftCalls, j \in JoinCalls :
    ( /\ leftCalls[l].pc = "done"
      /\ j \in leftCalls[l].joined
      /\ joinedCalls[j].pc = "done"
      /\ \A k \in JoinCalls :
           joinedCalls[k].participant = leftCalls[l].participant => k \in leftCalls[l].joined )
    => /\ MapGet(participants, leftCalls[l].participant) = 0
       /\ ~streams[j].isConnected
       /\ streams[j].transcriber # "open"

(***************************************************************************)
(* Properties of join(), checked under SpecJoin and SpecJoinFair.          *)
(***************************************************************************)
\* C15: join() makes at most 3 connect attempts; the delay it has waited after the
\* failed attempt n is n * 2000 ms, for n = 1, 2 only; after the third failed
\* attempt it waits no more and throws, the bot being left without a room
C15_State ==
  /\ joinCall.connects <= 3
  /\ joinCall.connects = joinCall.attempt
  /\ joinCall.waits = [n \in 1..Len(joinCall.waits) |-> n * 2000]
  /\ joinCall.pc \in {"connect", "disconnect"} => Len(joinCall.waits) = joinCall.attempt - 1
  /\ joinCall.pc = "backoff" => Len(joinCall.waits) = joinCall.attempt /\ joinCall.attempt < 3
  /\ (joinCall.pc = "done" /\ joinCall.result = "threw" /\ joinCall.connects > 0)
       => /\ joinCall.connects = 3
          /\ joinCall.waits = <<2000, 4000>>
          /\ room = "null"

\* C15: ... and join() terminates when the calls it awaits do
C15_BoundedRetriesThenFailure == []C15_State /\ <>(joinCall.pc = "done")

C15_Witness ==
  /\ joinCall.pc = "done"
  /\ joinCall.result = "threw"
  /\ joinCall.connects = 3
  /\ joinCall.waits = <<2000, 4000>>
  /\ room = "null"

\* a step in which a listener of setupRoomEvents handles a participant event
EventHandled ==
  \/ \E l \in LeftCalls : leftCalls[l].pc = "idle" /\ leftCalls'[l].pc # "idle"
  \/ \E j \in JoinCalls : /\ joinedCalls[j].pc = "idle"
                          /\ joinedCalls'[j].pc # "idle"
                          /\ j \notin joinCall'.enumerated
  \/ \E h \in JoinCalls : /\ joinedCalls[h].pc = "done"
                          /\ audio[h].pc = "none"
                          /\ audio'[h].pc # "none"

\* C16: the listeners for participant events are registered only when join() has
\* connected and has enumerated the participants found in the room
C16_State == joinCall.listeners => (joinCall.pc = "done" /\ joinCall.result = "ok")

\* C16: ... so that no participant event is handled before that
C16_Step == EventHandled => (joinCall.pc = "done" /\ joinCall.result = "ok")

C16_ListenersAfterEnumeration == []C16_State /\ [][C16_Step]_vars

\* the second half of C16 alone
C16_NoEventBeforeEnumerationEnds == [][C16_Step]_vars

\* C26: when the connect() of the adapter fails in handleParticipantJoined, the
\* invocation ends with an error for its caller and registers no handler for the
\* participant
C26_ConnectFailurePropagates ==
  \A j \in JoinCalls :
    (joinedCalls[j].pc = "done" /\ joinedCalls[j].result = "failed")
      => /\ joinedCalls[j].rejected
         /\ handlers[j] = NoHandler
         /\ MapGet(participants, joinedCalls[j].participant) # j

\* C31: once leave() has returned, the Map of the bot holds no handler and no
\* adapter of the bot is connected or has an open session, at that moment and ever
\* after
C31_NothingOwnedAfterLeave ==
  (leaveCall.pc = "done" /\ leaveCall.result = "ok")
    => /\ \A i \in 1..Len(participants) : participants[i] = Empty
       /\ \A a \in JoinCalls :
            ~isActive(streams[a]) /\ streams[a].transcriber # "open"

(***************************************************************************)
(* Properties of a participant handled twice, checked under SpecRejoinFair. *)
(***************************************************************************)
\* the adapter has a session
HasSession(a) == isActive(streams[a]) \/ streams[a].transcriber = "open"

\* the adapters with a session that were made for participant p
SessionsOf(p) == {a \in DOMAIN streams : joinedCalls[a].participant = p /\ HasSession(a)}

\* the handler was made and is not the one the Map holds for its participant
Dropped(h) ==
  /\ handlers[h].participantId # "none"
  /\ MapGet(participants, handlers[h].participantId) # h

\* at most one adapter of a participant has a session, and a handler leaves the Map
\* only with its speech duration added to the total
C32_State ==
  /\ \A p \in ParticipantIds : Cardinality(SessionsOf(p)) <= 1
  /\ \A h \in DOMAIN handlers : Dropped(h) => handlers[h].added >= 1

\* C32: a participant id has at most one handler and one adapter with a session at a
\* time, no handler is replaced in the Map with its speech duration unaccounted, and
\* every adapter that got a session loses it in the end
C32_OneHandlerPerParticipant ==
  /\ []C32_State
  /\ \A a \in Rejoins : HasSession(a) ~> ~HasSession(a)

(***************************************************************************)
(* Properties of the AudioBuffer, checked under SpecBuffer.                *)
(***************************************************************************)
\* the samples fed since the construction or the last flush or reset that no emitted
\* chunk can hold yet
Remainder ==
  LET size == audioBuffer.chunkSize
      total == Len(audioBuffer.fed)
  IN SubSeq(audioBuffer.fed, (total \div size) * size + 1, total)

C20_State ==
  LET size == audioBuffer.chunkSize
      total == Len(audioBuffer.fed)
  IN /\ Len(audioBuffer.emitted) = total \div size
     /\ \A k \in 1..Len(audioBuffer.emitted) :
          /\ Len(audioBuffer.emitted[k]) = size
          /\ \A i \in 1..size :
               audioBuffer.emitted[k][i] = audioBuffer.fed[(k - 1) * size + i]
     /\ audioBuffer.writeIndex = Len(Remainder)
     /\ audioBuffer.writeIndex < size
     /\ SubSeq(audioBuffer.buffer, 1, audioBuffer.writeIndex) = Remainder

C20_Step ==
  (audioBuffer'.last = "flush" /\ audioBuffer' # audioBuffer) =>
     IF Remainder = <<>>
     THEN audioBuffer'.returned.isNull
     ELSE ~audioBuffer'.returned.isNull /\ audioBuffer'.returned.samples = Remainder

\* C20: for every chunk size and every sequence of addSamples calls, the chunks emitted
\* number floor(total / size), each has the length size, their concatenation is the
\* first floor(total / size) * size samples fed, in order; the other samples are
\* retained, and flush returns exactly them (null when there are none)
C20_ChunksAreTheSamplesInOrder == []C20_State /\ [][C20_Step]_vars

\* a flush has returned the one retained sample after a chunk of three had been emitted
C20_Witness ==
  /\ audioBuffer.chunkSize = 3
  /\ audioBuffer.last = "flush"
  /\ audioBuffer.returned = [isNull |-> FALSE, samples |-> <<Loud>>]
  /\ audioBuffer.buffer = <<Loud, 0, Loud>>

(***************************************************************************)
(* Properties of float32ToInt16, checked under SpecConvert.                *)
(***************************************************************************)
Int16Range == -32768..32767

\* C21: float32ToInt16 clamps to [-1, 1], maps -1.0 to -32768, 0.0 to 0 and 1.0 to
\* 32767, and for every input the scaled value is within the signed 16-bit range, so
\* that the store into the Int16Array does not wrap
C21_ClampedScaledWithoutWrap ==
  pcm.returned =>
  /\ Len(pcm.int16Array) = Len(pcm.float32Array)
  /\ \A i \in 1..Len(pcm.float32Array) :
       LET x == pcm.float32Array[i]
           y == pcm.int16Array[i]
       IN /\ pcm.scaled[i] \in Int16Range
          /\ y = pcm.scaled[i]
          /\ (x.kind = "-Infinity" \/ (x.kind = "number" /\ x.num <= -FloatDen)) => y = -32768
          /\ (x.kind = "Infinity" \/ (x.kind = "number" /\ x.num >= FloatDen)) => y = 32767
          /\ x = Number(0) => y = 0
          /\ (x.kind = "number" /\ x.num > -FloatDen /\ x.num < FloatDen)
               => /\ y > -32768 /\ y < 32767
                  /\ (x.num < 0 => y <= 0)
                  /\ (x.num > 0 => y >= 0)

\* 1.0 and a value above it have been converted in one chunk
C21_Witness ==
  /\ pcm.returned
  /\ pcm.float32Array = <<Number(FloatDen), Number(2 * FloatDen)>>
  /\ pcm.int16Array = <<32767, 32767>>

(***************************************************************************)
(* Properties of the adapter, checked under SpecAdapter.                   *)
(***************************************************************************)
\* the step is the one that the history names
AdapterStep(what) ==
  adapterCalls'.steps = adapterCalls.steps + 1 /\ adapterCalls'.last = what

C22_Step ==
  /\ AdapterStep("connect returned at once")
       => /\ isActive(streams[1])
          /\ streams' = streams
          /\ adapterCalls'.emitted = adapterCalls.emitted
          /\ adapterCalls'.external = adapterCalls.external
  /\ AdapterStep("connect")
       => /\ ~isActive(streams[1])
          /\ streams'[1].connectCalls = streams[1].connectCalls + 1
          /\ streams'[1].connecting = "token"
  /\ (streams[1].connecting = "no" /\ isActive(streams[1]))
       => streams'[1].connecting = "no"
  /\ AdapterStep("token")
       => streams'[1].transcriber = "new" /\ streams'[1].connecting = "socket"
  /\ AdapterStep("open")
       => /\ isActive(streams'[1])
          /\ adapterCalls'.emitted
               = Append(adapterCalls.emitted, [event |-> "connected", isActive |-> TRUE])

\* C22: connect() on a connected adapter opens no session, replaces no transcriber, emits
\* nothing and leaves the adapter connected; on an adapter that is not connected it
\* opens one session, and when that succeeds the adapter is connected and has emitted
\* 'connected'
C22_ConnectIsIdempotent == [][C22_Step]_vars

\* connect() has returned at once on an adapter that an earlier connect() connected
C22_Witness ==
  /\ adapterCalls.last = "connect returned at once"
  /\ streams[1].isConnected
  /\ streams[1].connectCalls = 1
  /\ streams[1].transcriber = "open"
  /\ adapterCalls.emitted = <<[event |-> "connected", isActive |-> TRUE]>>

C23_Step ==
  AdapterStep("sendAudio")
    => /\ ~adapterCalls'.raised
       /\ ~isActive(streams[1]) => streams' = streams
       /\ isActive(streams[1])
            => streams'[1] = [streams[1] EXCEPT !.sent = @ + 1]

\* C23: sendAudio never throws; on an adapter that is not connected it forwards nothing
\* and changes no state, on a connected adapter it forwards the chunk, an error of the
\* external send being absorbed
C23_SendAudioForwardsWhenConnected == [](~adapterCalls.raised) /\ [][C23_Step]_vars

C24_Step ==
  /\ AdapterStep("close returned")
       => /\ streams'[1].transcriber = "null"
          /\ ~isActive(streams'[1])
  /\ (adapterCalls.last = "close returned" /\ adapterCalls'.calls = adapterCalls.calls + 1
        /\ adapterCalls'.last \in {"close", "close returned"})
       => /\ adapterCalls'.last = "close returned"
          /\ adapterCalls'.external = adapterCalls.external
          /\ streams' = streams

\* C24: close() never throws; when it returns the adapter holds no transcriber and
\* isActive() is false, also when the external shutdown failed; a close() that follows
\* a close() makes no external call and changes no state
C24_CloseIsIdempotent == [](~adapterCalls.raised) /\ [][C24_Step]_vars

\* a second close() has returned after a close() whose external shutdown was awaited
C24_Witness ==
  /\ adapterCalls.last = "close returned"
  /\ adapterCalls.calls = 3
  /\ adapterCalls.steps = 6
  /\ adapterCalls.external = 1
  /\ adapterCalls.emitted = <<[event |-> "connected", isActive |-> TRUE]>>
  /\ streams[1].transcriber = "null"
  /\ ~streams[1].isConnected

C25_Step ==
  /\ AdapterStep("closed")
       => /\ ~isActive(streams'[1])
          /\ streams[1].connecting = "no"
          /\ adapterCalls'.emitted
               = Append(adapterCalls.emitted, [event |-> "closed", isActive |-> FALSE])
  /\ (~isActive(streams[1]) /\ isActive(streams'[1])) => AdapterStep("open")
  /\ AdapterStep("error")
       => /\ isActive(streams'[1]) = isActive(streams[1])
          /\ adapterCalls'.emitted
               = Append(adapterCalls.emitted,
                        [event |-> "error", isActive |-> isActive(streams[1])])

\* C25: when the session of the transcriber ends, the adapter emits 'closed' and
\* isActive() is false when the listeners run; it stays false until a connect() made
\* later succeeds; an 'error' event does not change isActive()
C25_ClosedMeansInactive == [][C25_Step]_vars

\* an error, the end of the session and a later successful connect()
C25_Witness ==
  /\ adapterCalls.emitted = <<[event |-> "connected", isActive |-> TRUE],
                              [event |-> "error", isActive |-> TRUE],
                              [event |-> "closed", isActive |-> FALSE],
                              [event |-> "connected", isActive |-> TRUE]>>
  /\ streams[1].isConnected
  /\ streams[1].connectCalls = 2

\* C33: from the return of close() until connect() is called again, isActive() is
\* false and the adapter has no open session, whatever connect() was under way when
\* close() ran
C33_ClosedStaysClosed ==
  adapterCalls.closed
    => /\ ~isActive(streams[1])
       /\ streams[1].transcriber # "open"

====
